---------------------------- MODULE Spec2Model ----------------------------
(***************************************************************************)
(* A model of the metadata core of flac_to_mka: the construction of a      *)
(* Metadata object (AlbumMetadata, MultidiscMetadata, CueMetadata) from a  *)
(* source and a bundle of command line overrides, and the output file name *)
(* derived from it.                                                        *)
(*                                                                         *)
(* Python strings are sequences of one-character strings, so that strip,   *)
(* split, replace, len and the regular expressions of the code are         *)
(* computed character by character.  A dict is a function whose domain is  *)
(* the set of keys it holds.                                               *)
(***************************************************************************)
EXTENDS Integers, Sequences, FiniteSets, TLC

VARIABLES
    pc,              \* position of the constructor / of the caller
    variant,         \* "Album", "Multidisc" or "Cue": the concrete class
    source,          \* self.source, with the files it names
    args,            \* the parsed command line (or no args at all)
    data,            \* self.data
    channels,        \* self.channels
    discs,           \* self.discs
    tracks,          \* self.tracks
    filename,        \* self.filename
    forced_filename, \* self.forced_filename
    disc_data,       \* MultidiscMetadata.disc_data
    merged,          \* self.data and self.discs as _MergeWithArgs left them
                     \* for its _Validate; discs is 0 until then
    err,             \* the exception that ended the construction, or NoError
    outname,         \* what GetOutputFilename() returned to the caller
    rawname,         \* a file name before its invalid characters are dealt with
    tool,            \* the function that dealt with them
    clean,           \* the name it made
    again,           \* what it makes of the name it made
    ids,             \* RandomChapterID.ids, the list of the class
    objs,            \* the RandomChapterID objects, in the order they were made
    mdata,           \* the Metadata the two documents are built from
    tagdoc,          \* the MatroskaTagger and the ChapterUIDs of its document
    chapdoc,         \* the MatroskaChapters and the UIDs of its document
    cue_time,        \* a CUE time code MM:SS:FF
    mka_time,        \* CueTimeToMKATime of it
    cue_back,        \* MKATimeToCueTime of that
    mka_back,        \* and CueTimeToMKATime of that
    base,            \* the path a namegen.FileName is made from
    isdir,           \* the paths that are directories, for os.path.isdir
    basename,        \* FileName.basename
    reserved,        \* FileName.reserved
    history,         \* the reservations made, in their order
    result,          \* the last call of the FileName and what it returned
    nerr,            \* the exception FileName() raised, or NoError
    opts,            \* the command line of a run and what its directory holds
    fsys,            \* the files that exist
    fsys0,           \* the files that existed before the run
    created,         \* the files the run has created
    exitfuncs,       \* the callbacks registered with atexit, in their order
    target,          \* the file each registered object would delete
    step,            \* where the run is
    raised,          \* the exception that ended the run, or NoError
    toolruns,        \* how often each external tool was started
    cuesheet,        \* the lines of the CUE sheet a CueFilenameChanger reads
    outputcue,       \* the name of the CUE sheet it is to create
    outlines         \* the lines it wrote

\* the fields of the Metadata object and what surrounds its construction
mvars == <<pc, variant, source, args, data, channels, discs, tracks, filename,
           forced_filename, disc_data, merged, err, outname>>

\* the names on their way through the substitutions
svars == <<rawname, tool, clean, again>>

\* the chapter identifiers and the documents that hold them
cvars == <<ids, objs, mdata, tagdoc, chapdoc>>

\* a time code on its way through the two conversions
tvars == <<cue_time, mka_time, cue_back, mka_back>>

\* a FileName and the directories around it
nvars == <<base, isdir, basename, reserved, history, result, nerr>>

\* a run of a pipeline and the files around it
pvars == <<opts, fsys, fsys0, created, exitfuncs, target, step, raised,
           toolruns>>

\* a CUE sheet being rewritten
wvars == <<cuesheet, outputcue, outlines>>

\* what is neither the Metadata object nor a name being substituted
xvars == <<cvars, tvars, nvars, pvars, wvars>>

\* all but the chapter identifiers, all but the time codes, all but the
\* FileName, all but the run
cother == <<mvars, svars, tvars, nvars, pvars, wvars>>

tother == <<mvars, svars, cvars, nvars, pvars, wvars>>

nother == <<mvars, svars, cvars, tvars, pvars, wvars>>

pother == <<mvars, svars, cvars, tvars, nvars, wvars>>

wother == <<mvars, svars, cvars, tvars, nvars, pvars>>

vars == <<mvars, svars, xvars>>

-----------------------------------------------------------------------------
(* Bounds of the model.                                                    *)

MaxDiscs == 2

MaxTracks == 2

MaxTrackNo == 3

MaxDateParts == 2

MaxNameLen == 3

-----------------------------------------------------------------------------
(* Python values.                                                          *)

\* None; every real character is a string of length one, so no string of the
\* program equals it.
None == <<"None">>

\* str(None), what an f-string makes of None
NoneText == <<"N", "o", "n", "e">>

Whitespace == {" ", "\t", "\n"}

Digits == <<"0", "1", "2", "3", "4", "5", "6", "7", "8", "9">>

DigitSet == {Digits[i] : i \in 1..10}

DigitVal(c) == (CHOOSE i \in 1..10 : Digits[i] = c) - 1

\* bool(x) of a value that is None or a str
Truthy(x) == x # None /\ x # <<>>

\* what an f-string puts for the value x
Fmt(x) == IF x = None THEN NoneText ELSE x

\* s[a:b] with 0-based a, exclusive b, as Python clips it
Slice(s, a, b) ==
    LET hi == IF b > Len(s) THEN Len(s) ELSE b
    IN  IF a >= hi THEN <<>> ELSE SubSeq(s, a + 1, hi)

RECURSIVE LStrip(_)
LStrip(s) ==
    IF s # <<>> /\ Head(s) \in Whitespace THEN LStrip(Tail(s)) ELSE s

RECURSIVE RStrip(_)
RStrip(s) ==
    IF s # <<>> /\ s[Len(s)] \in Whitespace
    THEN RStrip(SubSeq(s, 1, Len(s) - 1))
    ELSE s

\* str.strip()
Strip(s) == RStrip(LStrip(s))

\* str.lstrip("0")
RECURSIVE LStripZero(_)
LStripZero(s) ==
    IF s # <<>> /\ Head(s) = "0" THEN LStripZero(Tail(s)) ELSE s

\* str.startswith(p)
StartsWith(s, p) == Len(p) <= Len(s) /\ SubSeq(s, 1, Len(p)) = p

\* sub in s
Contains(s, sub) ==
    \E i \in 0..(Len(s) - Len(sub)) : SubSeq(s, i + 1, i + Len(sub)) = sub

\* str.replace(old, new): leftmost occurrences, not overlapping; an empty old
\* matches before every character and at the end
RECURSIVE Replace(_, _, _)
Replace(s, old, new) ==
    IF old = <<>>
    THEN IF s = <<>> THEN new
         ELSE new \o <<Head(s)>> \o Replace(Tail(s), old, new)
    ELSE IF s = <<>> THEN <<>>
    ELSE IF StartsWith(s, old)
         THEN new \o Replace(SubSeq(s, Len(old) + 1, Len(s)), old, new)
         ELSE <<Head(s)>> \o Replace(Tail(s), old, new)

\* re.sub of a one-character class: every character of cls becomes new
RECURSIVE SubClass(_, _, _)
SubClass(s, cls, new) ==
    IF s = <<>> THEN <<>>
    ELSE (IF Head(s) \in cls THEN new ELSE <<Head(s)>>)
         \o SubClass(Tail(s), cls, new)

\* re.split on a one-character class, and str.split(sep) for one character
RECURSIVE SplitAt(_, _, _)
SplitAt(s, seps, cur) ==
    IF s = <<>> THEN <<cur>>
    ELSE IF Head(s) \in seps
         THEN <<cur>> \o SplitAt(Tail(s), seps, <<>>)
         ELSE SplitAt(Tail(s), seps, Append(cur, Head(s)))

Split(s, seps) == SplitAt(s, seps, <<>>)

\* " ".join(parts)
RECURSIVE Join(_, _)
Join(parts, sep) ==
    IF parts = <<>> THEN <<>>
    ELSE IF Len(parts) = 1 THEN parts[1]
    ELSE parts[1] \o sep \o Join(Tail(parts), sep)

AllDigits(s) == \A i \in 1..Len(s) : s[i] \in DigitSet

\* int(s) accepts surrounding whitespace and one sign
IntBody(s) ==
    LET t == Strip(s)
    IN  IF t # <<>> /\ Head(t) \in {"+", "-"} THEN Tail(t) ELSE t

IsInt(s) == s # None /\ IntBody(s) # <<>> /\ AllDigits(IntBody(s))

RECURSIVE DigitsVal(_, _)
DigitsVal(s, acc) ==
    IF s = <<>> THEN acc ELSE DigitsVal(Tail(s), 10 * acc + DigitVal(Head(s)))

IntOf(s) ==
    LET t == Strip(s)
        v == DigitsVal(IntBody(s), 0)
    IN  IF Head(t) = "-" THEN 0 - v ELSE v

\* str(n) of an int
RECURSIVE NatStr(_)
NatStr(n) ==
    IF n < 10 THEN <<Digits[n + 1]>>
    ELSE NatStr(n \div 10) \o <<Digits[(n % 10) + 1]>>

StrOf(n) == IF n < 0 THEN <<"-">> \o NatStr(0 - n) ELSE NatStr(n)

\* str.zfill(2) of the str of a natural number
ZFill2(s) == IF Len(s) < 2 THEN <<"0">> \o s ELSE s

\* dict operations
Get(d, k) == IF k \in DOMAIN d THEN d[k] ELSE <<>>

Put(d, k, v) == [x \in (DOMAIN d) \cup {k} |-> IF x = k THEN v ELSE d[x]]

Del(d, k) == [x \in (DOMAIN d) \ {k} |-> d[x]]

\* dict.update(other)
Update(d, other) ==
    [x \in (DOMAIN d) \cup (DOMAIN other) |->
        IF x \in DOMAIN other THEN other[x] ELSE d[x]]

EmptyDict == [x \in {} |-> <<>>]

-----------------------------------------------------------------------------
(* Constants of the program.                                               *)

\* ext.WAV and ext.FLAC
WAV == <<".", "w", "a", "v">>

FLAC == <<".", "f", "l", "a", "c">>

CD == <<"C", "D">>

Stereo == <<"2", ".", "0">>

Surround == <<"5", ".", "1">>

Mono == <<"1", ".", "0">>

MEDIUM_CHOICES ==
    { <<"C", "D">>,
      <<"S", "A", "C", "D">>,
      <<"D", "V", "D">>,
      <<"D", "V", "D", "-", "A">>,
      <<"B", "l", "u", "-", "r", "a", "y">>,
      <<"W", "e", "b">>,
      <<"V", "i", "n", "y", "l">>,
      <<"7", "8", "R", "P", "M", " ", "V", "i", "n", "y", "l">>,
      <<"L", "P">>,
      <<"V", "i", "n", "y", "l", " ", "L", "P">>,
      <<"4", "5", "R", "P", "M", " ", "V", "i", "n", "y", "l", " ", "L", "P">>,
      <<"E", "P">>,
      <<"V", "i", "n", "y", "l", " ", "E", "P">>,
      <<"4", "5", "R", "P", "M", " ", "V", "i", "n", "y", "l", " ", "E", "P">>,
      <<"1", "8", "0", "g", " ", "V", "i", "n", "y", "l", " ", "L", "P">>,
      <<"1", "8", "0", "g", " ", "4", "5", "R", "P", "M", " ", "V", "i", "n", "y", "l", " ", "L", "P">>,
      <<"2", "0", "0", "g", " ", "V", "i", "n", "y", "l", " ", "L", "P">>,
      <<"2", "0", "0", "g", " ", "4", "5", "R", "P", "M", " ", "V", "i", "n", "y", "l", " ", "L", "P">>,
      <<"2", "2", "0", "g", " ", "V", "i", "n", "y", "l", " ", "L", "P">>,
      <<"2", "2", "0", "g", " ", "4", "5", "R", "P", "M", " ", "V", "i", "n", "y", "l", " ", "L", "P">>,
      <<"R", "e", "e", "l", "-", "t", "o", "-", "r", "e", "e", "l">>,
      <<"8", "-", "T", "r", "a", "c", "k">>,
      <<"C", "a", "s", "s", "e", "t", "t", "e">>,
      <<"V", "H", "S">> }

RequiredTags == <<"TITLE", "ARTIST", "GENRE", "DATE_RECORDED">>

NoError == "NoError"

\* keys of a track record
K_title == <<"t", "i", "t", "l", "e">>

K_track == <<"t", "r", "a", "c", "k">>

K_start_time == <<"s", "t", "a", "r", "t", "_", "t", "i", "m", "e">>

K_disc == <<"d", "i", "s", "c">>

K_side == <<"s", "i", "d", "e">>

K_subtitle == <<"s", "u", "b", "t", "i", "t", "l", "e">>

K_subindex == <<"s", "u", "b", "i", "n", "d", "e", "x">>

K_phase == <<"p", "h", "a", "s", "e">>

-----------------------------------------------------------------------------
(* tools/util/time.py.  A Time is held as a whole number of CUE frames     *)
(* (1/75 s) and the fraction of a second is taken exactly, as it is for    *)
(* the whole seconds of the sources below; what the binary rounding of the *)
(* float makes of other fractions is in Fractionals and Frames.            *)

FramesPerSecond == 75

\* the first n decimal digits of r / 75, for 0 <= r < 75
RECURSIVE FracDigits(_, _)
FracDigits(r, n) ==
    IF n = 0 THEN <<>>
    ELSE <<Digits[((10 * r) \div FramesPerSecond) + 1]>>
         \o FracDigits((10 * r) % FramesPerSecond, n - 1)

Hours(t) == ZFill2(StrOf((t \div FramesPerSecond) \div 3600))

Minutes(t) == ZFill2(StrOf(((t \div FramesPerSecond) % 3600) \div 60))

Seconds(t) == ZFill2(StrOf((t \div FramesPerSecond) % 60))

Fractional(t) == FracDigits(t % FramesPerSecond, 9)

MKACode(t) ==
    Hours(t) \o <<":">> \o Minutes(t) \o <<":">> \o Seconds(t)
             \o <<".">> \o Fractional(t)

\* Time.FromCueCode: float() of the three fields of MM:SS:FF
CueCodeOk(s) ==
    LET f == Split(s, {":"})
    IN  Len(f) = 3 /\ \A i \in 1..3 : IsInt(f[i])

FromCueCode(s) ==
    LET f == Split(s, {":"})
    IN  FramesPerSecond * (60 * IntOf(f[1]) + IntOf(f[2])) + IntOf(f[3])

CueTimeToMKATime(s) == MKACode(FromCueCode(s))

-----------------------------------------------------------------------------
(* Metadata: the methods of the base class, as functions of the fields     *)
(* they read.                                                              *)

\* Metadata.__init__, the fields before _initialize
InitialData == [k \in {"TITLE", "ARTIST", "GENRE", "DATE_RECORDED"} |-> None]

\* Metadata._PullChannels: the exception it raises, if any
PullChannelsError(info) ==
    IF info.channels \in {6, 1, 2} THEN NoError ELSE "RuntimeError"

\* Metadata._PullChannels: self.channels afterwards
PullChannels(ch, info) ==
    IF info.channels = 6 THEN Surround
    ELSE IF info.channels = 1 THEN Mono
    ELSE ch

\* str(samplerate/1000) for a rate that is no multiple of 1000: the
\* thousandths without their trailing zeros
RECURSIVE RStripZero(_)
RStripZero(s) ==
    IF s # <<>> /\ s[Len(s)] = "0"
    THEN RStripZero(SubSeq(s, 1, Len(s) - 1))
    ELSE s

KiloStr(rate) ==
    IF rate % 1000 # 0
    THEN StrOf(rate \div 1000) \o <<".">>
         \o RStripZero(<<Digits[((rate % 1000) \div 100) + 1],
                         Digits[(((rate % 1000) \div 10) % 10) + 1],
                         Digits[(rate % 10) + 1]>>)
    ELSE StrOf(rate \div 1000)

\* Metadata._PullHDFormat: self.data afterwards
PullHDFormat(d, info) ==
    IF info.sample_rate = 44100 /\ info.bits_per_sample = 16 /\ info.channels = 2
    THEN d
    ELSE Put(d, "HD_FORMAT",
             KiloStr(info.sample_rate) \o <<"/">> \o StrOf(info.bits_per_sample)
             \o (IF info.channels = 6 THEN <<" ">> \o Surround
                 ELSE IF info.channels = 1 THEN <<" ">> \o Mono
                 ELSE <<>>))

\* an override that gives way to the tag of the source
MergeOne_SourceWins(d, k, v) ==
    IF Truthy(v) /\ Get(d, k) \in {None, <<>>} THEN Put(d, k, v) ELSE d

\* one "if args.x: self[K] = args.x" of _MergeWithArgs
MergeOne(d, k, v) == IF Truthy(v) THEN Put(d, k, v) ELSE d

\* Metadata._MergeWithArgs, the tag overrides
MergeTags(d, a) ==
    LET d1 == MergeOne(d, "TITLE", a.album)
        d2 == MergeOne(d1, "ARTIST", a.artist)
        d3 == MergeOne(d2, "GENRE", a.genre)
        d4 == MergeOne(d3, "DATE_RECORDED", a.year)
        d5 == MergeOne(d4, "LABEL", a.label)
        d6 == IF Truthy(a.issuedate) /\ "LABEL" \in DOMAIN d5
              THEN Put(d5, "ISSUE_DATE", a.issuedate) ELSE d5
        d7 == MergeOne(d6, "VERSION", a.version)
    IN  MergeOne(d7, "ORIGINAL_MEDIUM", a.medium)

\* Metadata._MergeWithArgs, the disc overrides: int(args.discs) is reached
\* and fails
MergeDiscsError(d, n, a) ==
    LET d1 == IF Truthy(a.disc) /\ n > 1 THEN Put(d, "PART_NUMBER", a.disc) ELSE d
    IN  IF Truthy(a.discs) /\ ("PART_NUMBER" \in DOMAIN d1 \/ Truthy(a.disc))
           /\ ~IsInt(a.discs)
        THEN "ValueError" ELSE NoError

\* _MergeWithArgs without the case of both overrides
MergeDiscsData_NoBoth(d, n, a) ==
    LET d1 == IF Truthy(a.disc) /\ n > 1 THEN Put(d, "PART_NUMBER", a.disc) ELSE d
    IN  IF a.nodiscs THEN Del(d1, "PART_NUMBER") ELSE d1

\* Metadata._MergeWithArgs, the disc overrides: self.data afterwards
MergeDiscsData(d, n, a) ==
    LET d1 == IF Truthy(a.disc) /\ n > 1 THEN Put(d, "PART_NUMBER", a.disc) ELSE d
        d3 == IF Truthy(a.disc) /\ Truthy(a.discs)
              THEN Put(d1, "PART_NUMBER", a.disc) ELSE d1
    IN  IF a.nodiscs THEN Del(d3, "PART_NUMBER") ELSE d3

\* Metadata._MergeWithArgs, the disc overrides: self.discs afterwards
MergeDiscsCount(d, n, a) ==
    LET d1 == IF Truthy(a.disc) /\ n > 1 THEN Put(d, "PART_NUMBER", a.disc) ELSE d
        n2 == IF Truthy(a.discs) /\ "PART_NUMBER" \in DOMAIN d1
              THEN IntOf(a.discs) ELSE n
        n3 == IF Truthy(a.disc) /\ Truthy(a.discs) THEN IntOf(a.discs) ELSE n2
    IN  IF a.nodiscs THEN 1 ELSE n3

\* _Validate clearing an ISSUE_DATE without LABEL, not a LABEL without
\* ISSUE_DATE
FixLabel_DateOnly(d) ==
    IF "ISSUE_DATE" \in DOMAIN d /\ "LABEL" \notin DOMAIN d
    THEN Del(d, "ISSUE_DATE")
    ELSE d

\* Metadata._Validate: LABEL and ISSUE_DATE go together
FixLabel(d) ==
    IF ("ISSUE_DATE" \in DOMAIN d) # ("LABEL" \in DOMAIN d)
    THEN Del(Del(d, "ISSUE_DATE"), "LABEL")
    ELSE d

\* _Validate without its second test of the discs
DiscError_FirstOnly(d, n) ==
    IF n > 1 /\ "PART_NUMBER" \notin DOMAIN d THEN "DiscConfigurationError"
    ELSE NoError

\* Metadata._Validate: disc and discs exist together or not at all
DiscError(d, n) ==
    IF n > 1 /\ "PART_NUMBER" \notin DOMAIN d THEN "DiscConfigurationError"
    ELSE IF "PART_NUMBER" \in DOMAIN d /\ n < 2 THEN "DiscConfigurationError"
    ELSE NoError

\* Metadata._Validate: the medium defaults to CD
DefaultMedium(d) ==
    IF "ORIGINAL_MEDIUM" \notin DOMAIN d THEN Put(d, "ORIGINAL_MEDIUM", CD) ELSE d

\* Metadata._Validate: a medium that is set is one of the choices
MediumError(d) ==
    IF "ORIGINAL_MEDIUM" \in DOMAIN d /\ d["ORIGINAL_MEDIUM"] \notin MEDIUM_CHOICES
    THEN "ValueError" ELSE NoError

\* _Validate asking for the title alone
RequiredError_TitleOnly(d) ==
    IF Get(d, "TITLE") = None THEN "TagNotFoundError" ELSE NoError

\* Metadata._Validate: the required tags are not None
RequiredError(d) ==
    IF \E i \in 1..Len(RequiredTags) : Get(d, RequiredTags[i]) = None
    THEN "TagNotFoundError" ELSE NoError

\* Metadata._Validate: every value is stripped
StripAll(d) == [k \in DOMAIN d |-> Strip(d[k])]

\* Metadata._Validate: the exception it raises, if any
ValidateError(d, n) ==
    LET d1 == FixLabel(d)
    IN  IF DiscError(d1, n) # NoError THEN DiscError(d1, n)
        ELSE IF MediumError(d1) # NoError THEN MediumError(d1)
        ELSE RequiredError(d1)

\* Metadata._Validate: self.data afterwards
Validate(d) == StripAll(DefaultMedium(FixLabel(d)))

\* the number of track records in place of the largest track number
MaxTrack_Count(ts) == Len(ts)

\* Metadata._Finalize: the largest track number, as TOTAL_PARTS wants it
RECURSIVE MaxTrack(_)
MaxTrack(ts) ==
    IF Len(ts) = 1 THEN IntOf(ts[1][K_track])
    ELSE LET m == MaxTrack(Tail(ts))
             h == IntOf(ts[1][K_track])
         IN  IF h > m THEN h ELSE m

\* Metadata._Finalize: TOTAL_PARTS
SumParts(d, ts, sumparts) ==
    IF sumparts THEN Put(d, "TOTAL_PARTS", StrOf(MaxTrack(ts)))
    ELSE IF "TOTAL_PARTS" \in DOMAIN d THEN Del(d, "TOTAL_PARTS")
    ELSE d

\* Metadata._Finalize: max() of no track, or int() of a track that is no
\* number
SumPartsError(ts, sumparts) ==
    IF sumparts /\ (ts = <<>> \/ \E i \in 1..Len(ts) : ~IsInt(ts[i][K_track]))
    THEN "ValueError" ELSE NoError

\* Metadata._Finalize: the components of the date that have four characters
YearParts(date) ==
    LET year == Split(date, {"-", "/", "."})
    IN  SelectSeq(year, LAMBDA y : Len(y) = 4)

\* Metadata._Finalize: DATE_RECORDED is reduced to a year
FinalizeDate(d) ==
    IF Len(d["DATE_RECORDED"]) # 4 /\ YearParts(d["DATE_RECORDED"]) # <<>>
    THEN Put(d, "DATE_RECORDED", YearParts(d["DATE_RECORDED"])[1])
    ELSE d

FinalizeDateError(d) ==
    IF Len(d["DATE_RECORDED"]) # 4 /\ YearParts(d["DATE_RECORDED"]) = <<>>
    THEN "RuntimeError" ELSE NoError

-----------------------------------------------------------------------------
(* Metadata.GetOutputFilename                                              *)

BaseTag(d) ==
    Fmt(Get(d, "ARTIST")) \o <<" ", "-", " ">> \o Fmt(Get(d, "DATE_RECORDED"))
        \o <<" ", "-", " ">> \o Fmt(Get(d, "TITLE"))

VersionTag(d) ==
    IF Truthy(Get(d, "VERSION"))
    THEN <<" ", "(">> \o Get(d, "VERSION") \o <<")">>
    ELSE <<>>

\* the label tag with the medium in it whatever it is
LabelTag_KeepCD(d, ch) ==
    LET chan == IF ch # Stereo THEN ch ELSE <<>>
        labeltag == Get(d, "LABEL") \o <<" ">> \o Get(d, "ISSUE_DATE")
                    \o <<" ">> \o Get(d, "ORIGINAL_MEDIUM") \o <<" ">> \o chan
    IN  IF Strip(labeltag) # <<>>
        THEN <<" ", "(">> \o Strip(labeltag) \o <<")">>
        ELSE <<>>

LabelTag(d, ch) ==
    LET chan == IF ch # Stereo THEN ch ELSE <<>>
        labeltag ==
            IF Get(d, "ORIGINAL_MEDIUM") = CD
            THEN Get(d, "LABEL") \o <<" ">> \o Get(d, "ISSUE_DATE")
                 \o <<" ">> \o chan
            ELSE Get(d, "LABEL") \o <<" ">> \o Get(d, "ISSUE_DATE")
                 \o <<" ">> \o Get(d, "ORIGINAL_MEDIUM") \o <<" ">> \o chan
    IN  IF Strip(labeltag) # <<>>
        THEN <<" ", "(">> \o Strip(labeltag) \o <<")">>
        ELSE <<>>

DiscTag(d) ==
    RStrip(IF Truthy(Get(d, "PART_NUMBER"))
           THEN <<" ", "(", "D", "i", "s", "c", " ">> \o Get(d, "PART_NUMBER")
                \o <<")", " ">> \o Get(d, "DISC_NAME")
           ELSE <<" ">> \o Get(d, "DISC_NAME"))

\* the dash for every invalid character but the backslash
SubDash_NoBackslash(s) == SubClass(s, {"<", ">", ":", "/"}, <<"-">>)

\* re.compile("[<>:/\\\\]").sub("-", filename)
SubDash(s) == SubClass(s, {"<", ">", ":", "/", "\\"}, <<"-">>)

\* re.compile("[|?*]").sub("", filename)
SubRemove(s) == SubClass(s, {"|", "?", "*"}, <<>>)

\* filename.replace('"', "'")
SubQuote(s) == Replace(s, <<"\"">>, <<"'">>)

Sanitize(s) == SubQuote(SubRemove(SubDash(s)))

\* the same three substitutions, as flac_rename.NewName makes them
NewNameSanitize(s) == SubQuote(SubRemove(SubDash(s)))

GetOutputFilename(d, ch, forced, fname) ==
    IF forced THEN fname
    ELSE Sanitize(BaseTag(d) \o VersionTag(d) \o DiscTag(d) \o LabelTag(d, ch)
                  \o WAV)

-----------------------------------------------------------------------------
(* AlbumMetadata and MultidiscMetadata.  source.list is the list of file   *)
(* names given to the constructor, source.disk maps a file name to what    *)
(* mutagen.flac.FLAC reads from it: its tags (the first value of each) and *)
(* its stream info.                                                        *)

\* the characters of the model in code point order, for sorted()
CodeOrder ==
    <<"\n", " ", "\"", "'", "(", ")", "*", "-", ".", "/",
      "0", "1", "2", "3", "4", "5", "6", "7", "8", "9", ":", "<", ">", "?",
      "A", "B", "C", "D", "E", "F", "G", "H", "I", "J", "K", "L", "M", "N",
      "O", "P", "Q", "R", "S", "T", "U", "V", "W", "X", "Y", "Z", "\\", "_",
      "a", "b", "c", "d", "e", "f", "g", "h", "i", "j", "k", "l", "m", "n",
      "o", "p", "q", "r", "s", "t", "u", "v", "w", "x", "y", "z", "|">>

Ord(c) == CHOOSE i \in 1..Len(CodeOrder) : CodeOrder[i] = c

\* a < b for two str
RECURSIVE StrLess(_, _)
StrLess(a, b) ==
    IF b = <<>> THEN FALSE
    ELSE IF a = <<>> THEN TRUE
    ELSE IF Head(a) = Head(b) THEN StrLess(Tail(a), Tail(b))
    ELSE Ord(Head(a)) < Ord(Head(b))

RECURSIVE Insert(_, _)
Insert(x, s) ==
    IF s = <<>> THEN <<x>>
    ELSE IF StrLess(x, Head(s)) THEN <<x>> \o s
    ELSE <<Head(s)>> \o Insert(x, Tail(s))

\* sorted(files)
RECURSIVE Sorted(_)
Sorted(s) == IF s = <<>> THEN <<>> ELSE Insert(Head(s), Sorted(Tail(s)))

\* _GetAlbumLevelMetadata: result key and the tag it is read from
AlbumMapping ==
    { <<"TITLE", "ALBUM">>, <<"DATE_RECORDED", "DATE">>, <<"ARTIST", "ARTIST">>,
      <<"GENRE", "GENRE">>, <<"LABEL", "LABEL">>, <<"ISSUE_DATE", "ISSUE_DATE">>,
      <<"VERSION", "VERSION">>, <<"ORIGINAL_MEDIUM", "ORIGINAL_MEDIUM">>,
      <<"DISC_NAME", "DISC_NAME">> }

GetAlbumLevelMetadata(files, disk) ==
    LET tag == disk[files[1]].tags
        found == {m \in AlbumMapping : m[2] \in DOMAIN tag}
    IN  [rkey \in {m[1] : m \in found} |->
            tag[(CHOOSE m \in found : m[1] = rkey)[2]]]

\* AlbumMetadata._GetTag and MultidiscMetadata._GetTag
GetTagFlac(src) == src.disk[src.list[1]]

\* AlbumMetadata._initialize: the disc number is pulled when both tags are
\* there; int(DISCTOTAL) may fail
AlbumDiscError(tag) ==
    IF "DISCTOTAL" \in DOMAIN tag /\ "DISCNUMBER" \in DOMAIN tag
       /\ ~IsInt(tag["DISCTOTAL"])
    THEN "ValueError" ELSE NoError

AlbumHasDiscs(tag) ==
    /\ "DISCTOTAL" \in DOMAIN tag
    /\ "DISCNUMBER" \in DOMAIN tag
    /\ IntOf(tag["DISCTOTAL"]) > 1

AlbumDiscData(d, tag) ==
    IF AlbumHasDiscs(tag) THEN Put(d, "PART_NUMBER", tag["DISCNUMBER"]) ELSE d

AlbumDiscCount(n, tag) ==
    IF AlbumHasDiscs(tag) THEN IntOf(tag["DISCTOTAL"]) ELSE n

\* the test that skips the merged output among the source files
IsOutput(f, name) == Contains(Replace(f, FLAC, WAV), name)

\* the files of the loop that are not skipped, in the order of the loop
TrackFiles(files, name) == SelectSeq(Sorted(files), LAMBDA f : ~IsOutput(f, name))

\* optional track keys of AlbumMetadata and of MultidiscMetadata
AlbumTrackTags ==
    { <<K_side, "SIDE">>, <<K_subtitle, "SUBTITLE">>, <<K_subindex, "SUBINDEX">>,
      <<K_phase, "PHASE">> }

MultidiscTrackTags ==
    { <<K_disc, "DISCNUMBER">>, <<K_subindex, "SUBINDEX">>,
      <<K_subtitle, "SUBTITLE">>, <<K_side, "SIDE">>, <<K_phase, "PHASE">> }

\* the track record of one file, at the time t of the merged audio
TrackRecord(tag, t, optional) ==
    LET found == {m \in optional : m[2] \in DOMAIN tag}
        keys == {K_title, K_track, K_start_time} \cup {m[1] : m \in found}
    IN  [k \in keys |->
            IF k = K_title THEN tag["TITLE"]
            ELSE IF k = K_track THEN tag["TRACKNUMBER"]
            ELSE IF k = K_start_time THEN MKACode(t)
            ELSE tag[(CHOOSE m \in found : m[1] = k)[2]]]

\* the loop over the files: the track records, mka_time advancing by the
\* length of each file
RECURSIVE TrackRecords(_, _, _, _)
TrackRecords(fs, disk, t, optional) ==
    IF fs = <<>> THEN <<>>
    ELSE <<TrackRecord(disk[Head(fs)].tags, t, optional)>>
         \o TrackRecords(Tail(fs), disk,
                         t + FramesPerSecond * disk[Head(fs)].length, optional)

\* the loop raises TagNotFoundError at a file without TITLE or TRACKNUMBER
TrackTagsError(fs, disk) ==
    IF \E i \in 1..Len(fs) :
          {"TITLE", "TRACKNUMBER"} \ (DOMAIN disk[fs[i]].tags) # {}
    THEN "TagNotFoundError" ELSE NoError

\* GetDisc(track_info); it raises KeyError for a record without 'disc'
GetDisc(track) ==
    IF K_side \in DOMAIN track THEN track[K_disc] \o track[K_side]
    ELSE track[K_disc]

\* MultidiscMetadata._initialize: the disc names, the first seen of a disc
\* kept
RECURSIVE DiscNames(_, _, _, _)
DiscNames(fs, disk, ts, dd) ==
    IF fs = <<>> THEN dd
    ELSE LET tag == disk[Head(fs)].tags
             disc == GetDisc(Head(ts))
         IN  DiscNames(Tail(fs), disk, Tail(ts),
                       IF disc \notin DOMAIN dd /\ "DISC_NAME" \in DOMAIN tag
                       THEN Put(dd, disc, tag["DISC_NAME"]) ELSE dd)

\* MultidiscMetadata._initialize: the exception of the first file the loop
\* cannot use: TagNotFoundError without TITLE or TRACKNUMBER, KeyError from
\* GetDisc without DISCNUMBER
MultidiscError(fs, disk) ==
    LET NoTags(i) == {"TITLE", "TRACKNUMBER"} \ (DOMAIN disk[fs[i]].tags) # {}
        NoDisc(i) == "DISCNUMBER" \notin DOMAIN disk[fs[i]].tags
        bad == {i \in 1..Len(fs) : NoTags(i) \/ NoDisc(i)}
    IN  IF bad = {} THEN NoError
        ELSE IF NoTags(CHOOSE i \in bad : \A j \in bad : i <= j)
        THEN "TagNotFoundError"
        ELSE "KeyError"

-----------------------------------------------------------------------------
(* CueMetadata.  source.cue holds the lines of the CUE sheet as readlines() *)
(* returns them, source.disk the audio files of its directory.             *)

UpperCase ==
    <<"A", "B", "C", "D", "E", "F", "G", "H", "I", "J", "K", "L", "M", "N",
      "O", "P", "Q", "R", "S", "T", "U", "V", "W", "X", "Y", "Z">>

LowerCase ==
    <<"a", "b", "c", "d", "e", "f", "g", "h", "i", "j", "k", "l", "m", "n",
      "o", "p", "q", "r", "s", "t", "u", "v", "w", "x", "y", "z">>

\* str.lower()
Lower(s) ==
    [i \in 1..Len(s) |->
        IF \E j \in 1..26 : UpperCase[j] = s[i]
        THEN LowerCase[CHOOSE j \in 1..26 : UpperCase[j] = s[i]]
        ELSE s[i]]

T_FILE == <<"F", "I", "L", "E">>

T_REM_DISCS == <<"R", "E", "M", " ", "D", "I", "S", "C", "S">>

T_TRACK == <<"T", "R", "A", "C", "K">>

T_TRACK_LINE == <<" ", " ", "T", "R", "A", "C", "K">>

T_PERFORMER == <<"P", "E", "R", "F", "O", "R", "M", "E", "R">>

T_INDEX == <<"I", "N", "D", "E", "X">>

T_REM == <<"R", "E", "M", " ">>

Indent == <<" ", " ", " ", " ">>

DirectTags_NoSpace ==
    << <<<<"R", "E", "M", " ", "D", "A", "T", "E">>, "DATE_RECORDED">>,
       <<<<"R", "E", "M", " ", "D", "I", "S", "C">>, "PART_NUMBER">>,
       <<T_PERFORMER, "ARTIST">>,
       <<<<"T", "I", "T", "L", "E">>, "TITLE">>,
       <<<<"R", "E", "M", " ", "G", "E", "N", "R", "E">>, "GENRE">>,
       <<<<"R", "E", "M", " ", "I", "S", "S", "U", "E", "_", "D", "A", "T", "E">>,
         "ISSUE_DATE">>,
       <<<<"R", "E", "M", " ", "L", "A", "B", "E", "L">>, "LABEL">>,
       <<<<"R", "E", "M", " ", "V", "E", "R", "S", "I", "O", "N">>, "VERSION">>,
       <<<<"R", "E", "M", " ", "O", "R", "I", "G", "I", "N", "A", "L", "_",
           "M", "E", "D", "I", "U", "M">>, "ORIGINAL_MEDIUM">>,
       <<<<"R", "E", "M", " ", "D", "I", "S", "C", "_", "N", "A", "M", "E">>,
         "DISC_NAME">> >>

\* direct_tags, in the order the dict is walked
DirectTags ==
    << <<<<"R", "E", "M", " ", "D", "A", "T", "E">>, "DATE_RECORDED">>,
       <<<<"R", "E", "M", " ", "D", "I", "S", "C", " ">>, "PART_NUMBER">>,
       <<T_PERFORMER, "ARTIST">>,
       <<<<"T", "I", "T", "L", "E">>, "TITLE">>,
       <<<<"R", "E", "M", " ", "G", "E", "N", "R", "E">>, "GENRE">>,
       <<<<"R", "E", "M", " ", "I", "S", "S", "U", "E", "_", "D", "A", "T", "E">>,
         "ISSUE_DATE">>,
       <<<<"R", "E", "M", " ", "L", "A", "B", "E", "L">>, "LABEL">>,
       <<<<"R", "E", "M", " ", "V", "E", "R", "S", "I", "O", "N">>, "VERSION">>,
       <<<<"R", "E", "M", " ", "O", "R", "I", "G", "I", "N", "A", "L", "_",
           "M", "E", "D", "I", "U", "M">>, "ORIGINAL_MEDIUM">>,
       <<<<"R", "E", "M", " ", "D", "I", "S", "C", "_", "N", "A", "M", "E">>,
         "DISC_NAME">> >>

\* CueMetadata.ExtractProperty
ExtractProperty(line, name) ==
    Strip(Replace(Replace(line, <<"\"">>, <<>>), name, <<>>))

\* CueMetadata.ExtractFilename
ExtractFilename(line) ==
    LET parts == Split(ExtractProperty(line, T_FILE), {" "})
    IN  Join(SubSeq(parts, 1, Len(parts) - 1), <<" ">>)

\* the lines of a TRACK block after its first: up to the first line that
\* does not start with four spaces
RECURSIVE BlockLines(_)
BlockLines(lines) ==
    IF lines = <<>> \/ ~StartsWith(Head(lines), Indent) THEN <<>>
    ELSE <<Head(lines)>> \o BlockLines(Tail(lines))

\* one line of a TRACK block as the loop rewrites it
BlockLine(line) ==
    Replace(Replace(Strip(line), T_INDEX \o <<" ">>, T_INDEX), T_REM, <<>>)

BlockName(line) == Split(BlockLine(line), {" "})[1]

BlockInfo(line) == ExtractProperty(BlockLine(line), BlockName(line))

\* the loop over the lines of a TRACK block: st.data is the track record,
\* st.times the time codes found, st.err the exception of a time code that
\* float() rejects
RECURSIVE BlockScan(_, _)
BlockScan(lines, st) ==
    IF lines = <<>> \/ st.err # NoError THEN st
    ELSE LET line == Head(lines)
             name == Lower(BlockName(line))
             info == BlockInfo(line)
         IN  IF StartsWith(Strip(line), T_PERFORMER) \/ info = <<>>
             THEN BlockScan(Tail(lines), st)
             ELSE IF Contains(BlockLine(line), T_INDEX)
             THEN IF CueCodeOk(info)
                  THEN BlockScan(Tail(lines),
                          [st EXCEPT !.times = Put(@, name, CueTimeToMKATime(info))])
                  ELSE [st EXCEPT !.err = "ValueError"]
             ELSE BlockScan(Tail(lines), [st EXCEPT !.data = Put(@, name, info)])

K_index01 == <<"i", "n", "d", "e", "x", "0", "1">>

K_index00 == <<"i", "n", "d", "e", "x", "0", "0">>

\* CueMetadata.ExtractTrackInformation: [err, data]
ExtractTrackInformation(lines) ==
    LET first == [k \in {K_track} |->
                    LStripZero(Slice(ExtractProperty(lines[1], T_TRACK), 0, 2))]
        st == BlockScan(BlockLines(Tail(lines)),
                        [data |-> first, times |-> EmptyDict, err |-> NoError])
        time_code == IF K_index01 \in DOMAIN st.times THEN K_index01 ELSE K_index00
    IN  IF st.err # NoError THEN [err |-> st.err, data |-> st.data]
        ELSE IF time_code \notin DOMAIN st.times
        THEN [err |-> "CueFormatError", data |-> st.data]
        ELSE [err |-> NoError,
              data |-> Put(st.data, K_start_time, st.times[time_code])]

\* the first key of direct_tags the line starts with, 0 if there is none
DirectTag(line) ==
    LET hits == {i \in 1..Len(DirectTags) : StartsWith(line, DirectTags[i][1])}
    IN  IF hits = {} THEN 0 ELSE CHOOSE i \in hits : \A j \in hits : i <= j

\* CueMetadata._initialize, the loop over the lines of the sheet; st holds
\* filename, discs, tracks, data and the exception raised, if any
RECURSIVE CueScan(_, _)
CueScan(lines, st) ==
    IF lines = <<>> \/ st.err # NoError THEN st
    ELSE LET line == Head(lines)
         IN  IF StartsWith(line, T_FILE)
             THEN CueScan(Tail(lines),
                     [st EXCEPT !.filename = Replace(ExtractFilename(line), WAV, FLAC)])
             ELSE IF StartsWith(line, T_REM_DISCS)
             THEN IF IsInt(ExtractProperty(line, T_REM_DISCS))
                  THEN CueScan(Tail(lines),
                          [st EXCEPT !.discs = IntOf(ExtractProperty(line, T_REM_DISCS))])
                  ELSE [st EXCEPT !.err = "ValueError"]
             ELSE IF StartsWith(line, T_TRACK_LINE)
             THEN LET t == ExtractTrackInformation(lines)
                  IN  IF t.err # NoError THEN [st EXCEPT !.err = t.err]
                      ELSE CueScan(Tail(lines),
                              [st EXCEPT !.tracks = Append(@, t.data)])
             ELSE IF ~StartsWith(line, <<" ">>) /\ DirectTag(line) # 0
             THEN CueScan(Tail(lines),
                     [st EXCEPT !.data =
                         Put(@, DirectTags[DirectTag(line)][2],
                             ExtractProperty(line, DirectTags[DirectTag(line)][1]))])
             ELSE CueScan(Tail(lines), st)

\* CueMetadata._GetTag: the audio file the FILE line names; it is not there
CueTagError(src, fname) ==
    IF fname = None THEN "TypeError"
    ELSE IF fname \notin DOMAIN src.disk THEN "MutagenError"
    ELSE NoError

\* CueMetadata._initialize, the tags the sheet did not set, from the audio
BackFillMapping ==
    { <<"TITLE", "TITLE">>, <<"ARTIST", "ARTIST">>, <<"GENRE", "GENRE">>,
      <<"DATE_RECORDED", "DATE">> }

BackFill(d, tags) ==
    [k \in DOMAIN d |->
        IF \E m \in BackFillMapping : m[1] = k /\ d[k] = None /\ m[2] \in DOMAIN tags
        THEN tags[(CHOOSE m \in BackFillMapping : m[1] = k)[2]]
        ELSE d[k]]

-----------------------------------------------------------------------------
(* The constructor, Metadata.__init__, one action for each call it makes,  *)
(* and the caller's GetOutputFilename() on the object it got.              *)

NoArgs ==
    [given |-> FALSE, album |-> None, artist |-> None, genre |-> None,
     year |-> None, label |-> None, issuedate |-> None, version |-> None,
     medium |-> None, disc |-> None, discs |-> None, nodiscs |-> FALSE,
     multidisc |-> FALSE]

\* sumparts of the three classes
SumPartsOf(v) == v # "Multidisc"

Fail(e) ==
    /\ pc' = "failed"
    /\ err' = e
    /\ UNCHANGED <<variant, source, args, data, channels, discs, tracks,
                   filename, forced_filename, disc_data, merged, outname>>

\* AlbumMetadata._initialize
AlbumInitialize ==
    /\ pc = "new"
    /\ variant = "Album"
    /\ LET tag == GetTagFlac(source).tags
           d1 == AlbumDiscData(Update(data, GetAlbumLevelMetadata(source.list, source.disk)),
                               tag)
           fs == TrackFiles(source.list,
                            GetOutputFilename(d1, channels, forced_filename, filename))
       IN  IF ~args.given THEN Fail("AttributeError")
           ELSE IF args.multidisc THEN Fail("ValueError")
           ELSE IF source.list = <<>> THEN Fail("IndexError")
           ELSE IF AlbumDiscError(tag) # NoError THEN Fail(AlbumDiscError(tag))
           ELSE IF TrackTagsError(fs, source.disk) # NoError
           THEN Fail(TrackTagsError(fs, source.disk))
           ELSE /\ data' = d1
                /\ discs' = AlbumDiscCount(discs, tag)
                /\ tracks' = TrackRecords(fs, source.disk, 0, AlbumTrackTags)
                /\ pc' = "initialized"
                /\ UNCHANGED <<variant, source, args, channels, filename,
                               forced_filename, disc_data, merged, err, outname>>
    /\ UNCHANGED <<svars, xvars>>

\* MultidiscMetadata._initialize
MultidiscInitialize ==
    /\ pc = "new"
    /\ variant = "Multidisc"
    /\ LET d1 == Update(data, Del(GetAlbumLevelMetadata(source.list, source.disk),
                                  "DISC_NAME"))
           fs == TrackFiles(source.list,
                            GetOutputFilename(d1, channels, forced_filename, filename))
           ts == TrackRecords(fs, source.disk, 0, MultidiscTrackTags)
       IN  IF ~args.given THEN Fail("AttributeError")
           ELSE IF ~args.multidisc THEN Fail("ValueError")
           ELSE IF source.list = <<>> THEN Fail("IndexError")
           ELSE IF MultidiscError(fs, source.disk) # NoError
           THEN Fail(MultidiscError(fs, source.disk))
           ELSE /\ data' = d1
                /\ tracks' = ts
                /\ disc_data' = DiscNames(fs, source.disk, ts, disc_data)
                /\ pc' = "initialized"
                /\ UNCHANGED <<variant, source, args, channels, discs, filename,
                               forced_filename, merged, err, outname>>
    /\ UNCHANGED <<svars, xvars>>

\* CueMetadata._initialize
CueInitialize ==
    /\ pc = "new"
    /\ variant = "Cue"
    /\ LET st == CueScan(source.cue,
                         [filename |-> filename, discs |-> discs, tracks |-> tracks,
                          data |-> data, err |-> NoError])
       IN  IF st.err # NoError THEN Fail(st.err)
           ELSE IF CueTagError(source, st.filename) # NoError
           THEN Fail(CueTagError(source, st.filename))
           ELSE /\ filename' = st.filename
                /\ discs' = st.discs
                /\ tracks' = st.tracks
                /\ data' = BackFill(st.data, source.disk[st.filename].tags)
                /\ pc' = "initialized"
                /\ UNCHANGED <<variant, source, args, channels, forced_filename,
                               disc_data, merged, err, outname>>
    /\ UNCHANGED <<svars, xvars>>

\* self._GetTag() of the class at hand
GetTag == IF variant = "Cue" THEN source.disk[filename] ELSE GetTagFlac(source)

\* tag = self._GetTag(); self._PullChannels(tag.info)
GetTagPullChannels ==
    /\ pc = "initialized"
    /\ IF PullChannelsError(GetTag) # NoError THEN Fail(PullChannelsError(GetTag))
       ELSE /\ channels' = PullChannels(channels, GetTag)
            /\ pc' = "channels"
            /\ UNCHANGED <<variant, source, args, data, discs, tracks, filename,
                           forced_filename, disc_data, merged, err, outname>>
    /\ UNCHANGED <<svars, xvars>>

\* self._PullHDFormat(tag.info)
DoPullHDFormat ==
    /\ pc = "channels"
    /\ data' = PullHDFormat(data, GetTag)
    /\ pc' = "hdformat"
    /\ UNCHANGED <<variant, source, args, channels, discs, tracks, filename,
                   forced_filename, disc_data, merged, err, outname>>
    /\ UNCHANGED <<svars, xvars>>

\* self._MergeWithArgs(args), with the _Validate() it ends with
MergeWithArgs ==
    /\ pc = "hdformat"
    /\ LET d1 == IF args.given THEN MergeTags(data, args) ELSE data
           d2 == IF args.given THEN MergeDiscsData(d1, discs, args) ELSE d1
           n2 == IF args.given THEN MergeDiscsCount(d1, discs, args) ELSE discs
       IN  IF args.given /\ MergeDiscsError(d1, discs, args) # NoError
           THEN Fail(MergeDiscsError(d1, discs, args))
           ELSE /\ merged' = [data |-> d2, discs |-> n2]
                /\ IF ValidateError(d2, n2) # NoError
                   THEN /\ pc' = "failed"
                        /\ err' = ValidateError(d2, n2)
                        /\ UNCHANGED <<data, discs>>
                   ELSE /\ pc' = "merged"
                        /\ data' = Validate(d2)
                        /\ discs' = n2
                        /\ err' = err
                /\ UNCHANGED <<variant, source, args, channels, tracks, filename,
                               forced_filename, disc_data, outname>>
    /\ UNCHANGED <<svars, xvars>>

\* self._Validate(), the call of __init__
DoValidate ==
    /\ pc = "merged"
    /\ IF ValidateError(data, discs) # NoError THEN Fail(ValidateError(data, discs))
       ELSE /\ data' = Validate(data)
            /\ pc' = "validated"
            /\ UNCHANGED <<variant, source, args, channels, discs, tracks, filename,
                           forced_filename, disc_data, merged, err, outname>>
    /\ UNCHANGED <<svars, xvars>>

\* self._Finalize()
Finalize ==
    /\ pc = "validated"
    /\ LET sp == SumPartsOf(variant)
       IN  IF SumPartsError(tracks, sp) # NoError THEN Fail(SumPartsError(tracks, sp))
           ELSE IF FinalizeDateError(SumParts(data, tracks, sp)) # NoError
           THEN Fail(FinalizeDateError(SumParts(data, tracks, sp)))
           ELSE /\ data' = FinalizeDate(SumParts(data, tracks, sp))
                /\ pc' = "done"
                /\ UNCHANGED <<variant, source, args, channels, discs, tracks,
                               filename, forced_filename, disc_data, merged, err,
                               outname>>
    /\ UNCHANGED <<svars, xvars>>

\* the caller asks the constructed object for its output name
CallGetOutputFilename ==
    /\ pc = "done"
    /\ outname' = GetOutputFilename(data, channels, forced_filename, filename)
    /\ pc' = "named"
    /\ UNCHANGED <<variant, source, args, data, channels, discs, tracks, filename,
                   forced_filename, disc_data, merged, err>>
    /\ UNCHANGED <<svars, xvars>>

Next ==
    \/ AlbumInitialize
    \/ MultidiscInitialize
    \/ CueInitialize
    \/ GetTagPullChannels
    \/ DoPullHDFormat
    \/ MergeWithArgs
    \/ DoValidate
    \/ Finalize
    \/ CallGetOutputFilename

-----------------------------------------------------------------------------
(* The inputs of the model: what the files on disk hold and what the       *)
(* command line gives.  An album is described once (its tags, its stream   *)
(* info, its tracks) and written out either as tagged FLAC files or as a   *)
(* CUE sheet beside one audio file.                                        *)

\* a tag that is not there
Absent == <<"Absent">>

PutOpt(d, k, v) == IF v = Absent THEN Del(d, k) ELSE Put(d, k, v)

NumStrs(lo, hi) == {StrOf(i) : i \in lo..hi}

S_A == <<"A">>

S_G == <<"G">>

S_T == <<"T">>

S_2001 == <<"2", "0", "0", "1">>

CdInfo == [channels |-> 2, sample_rate |-> 44100, bits_per_sample |-> 16]

TrackDesc(title, number) ==
    [tags |-> PutOpt(PutOpt(EmptyDict, "TITLE", title), "TRACKNUMBER", number),
     length |-> 210]

BaseTags ==
    [k \in {"ALBUM", "ARTIST", "GENRE", "DATE"} |->
        IF k = "ALBUM" THEN S_T ELSE IF k = "ARTIST" THEN S_A
        ELSE IF k = "GENRE" THEN S_G ELSE S_2001]

\* an album with the required tags, CD audio and one track
BaseAlbum ==
    [tags |-> BaseTags, info |-> CdInfo, audio |-> EmptyDict,
     trks |-> <<TrackDesc(<<"s">>, <<"1">>)>>]

BaseArgs == [NoArgs EXCEPT !.given = TRUE]

\* the album as FLAC files 01.flac, 02.flac, ...: every file carries the
\* album's tags and those of its track
FlacName(i) == ZFill2(StrOf(i)) \o FLAC

FlacSource(al) ==
    [list |-> [i \in 1..Len(al.trks) |-> FlacName(i)],
     cue |-> <<>>,
     disk |-> [f \in {FlacName(i) : i \in 1..Len(al.trks)} |->
                  LET i == CHOOSE j \in 1..Len(al.trks) : FlacName(j) = f
                  IN  [tags |-> Update(al.tags, al.trks[i].tags),
                       channels |-> al.info.channels,
                       sample_rate |-> al.info.sample_rate,
                       bits_per_sample |-> al.info.bits_per_sample,
                       length |-> al.trks[i].length]]]

\* the album as a CUE sheet: the line of each tag, the FILE line and the
\* TRACK blocks
CueKeys ==
    << <<"ARTIST", T_PERFORMER>>,
       <<"ALBUM", <<"T", "I", "T", "L", "E">>>>,
       <<"DATE", <<"R", "E", "M", " ", "D", "A", "T", "E">>>>,
       <<"GENRE", <<"R", "E", "M", " ", "G", "E", "N", "R", "E">>>>,
       <<"DISCTOTAL", T_REM_DISCS>>,
       <<"DISCNUMBER", <<"R", "E", "M", " ", "D", "I", "S", "C">>>>,
       <<"LABEL", <<"R", "E", "M", " ", "L", "A", "B", "E", "L">>>>,
       <<"ISSUE_DATE",
         <<"R", "E", "M", " ", "I", "S", "S", "U", "E", "_", "D", "A", "T", "E">>>>,
       <<"VERSION", <<"R", "E", "M", " ", "V", "E", "R", "S", "I", "O", "N">>>>,
       <<"ORIGINAL_MEDIUM",
         <<"R", "E", "M", " ", "O", "R", "I", "G", "I", "N", "A", "L", "_",
           "M", "E", "D", "I", "U", "M">>>>,
       <<"DISC_NAME",
         <<"R", "E", "M", " ", "D", "I", "S", "C", "_", "N", "A", "M", "E">>>> >>

Quoted(key, value) == key \o <<" ", "\"">> \o value \o <<"\"", "\n">>

RECURSIVE CueHeader(_, _)
CueHeader(tags, i) ==
    IF i > Len(CueKeys) THEN <<>>
    ELSE (IF CueKeys[i][1] \in DOMAIN tags
          THEN <<Quoted(CueKeys[i][2], tags[CueKeys[i][1]])>> ELSE <<>>)
         \o CueHeader(tags, i + 1)

CueCodeOf(sec) ==
    ZFill2(StrOf(sec \div 60)) \o <<":">> \o ZFill2(StrOf(sec % 60))
        \o <<":", "0", "0">>

RECURSIVE CueBlocks(_, _)
CueBlocks(trks, sec) ==
    IF trks = <<>> THEN <<>>
    ELSE LET t == Head(trks).tags
         IN  << <<" ", " ">> \o T_TRACK
                \o (IF "TRACKNUMBER" \in DOMAIN t
                    THEN <<" ">> \o ZFill2(t["TRACKNUMBER"]) ELSE <<>>)
                \o <<" ", "A", "U", "D", "I", "O", "\n">> >>
             \o (IF "TITLE" \in DOMAIN t
                 THEN <<Indent \o Quoted(<<"T", "I", "T", "L", "E">>, t["TITLE"])>>
                 ELSE <<>>)
             \o << Indent \o T_INDEX \o <<" ", "0", "1", " ">> \o CueCodeOf(sec)
                   \o <<"\n">> >>
             \o CueBlocks(Tail(trks), sec + Head(trks).length)

AudioName == <<"a">> \o FLAC

CueSource(al) ==
    [list |-> <<>>,
     cue |-> CueHeader(al.tags, 1)
             \o <<T_FILE \o <<" ", "\"", "a">> \o WAV \o <<"\"", " ", "W", "A", "V", "E", "\n">> >>
             \o CueBlocks(al.trks, 0),
     disk |-> [f \in {AudioName} |->
                  [tags |-> al.audio,
                   channels |-> al.info.channels,
                   sample_rate |-> al.info.sample_rate,
                   bits_per_sample |-> al.info.bits_per_sample,
                   length |-> 0]]]

-----------------------------------------------------------------------------
(* The initial states: the fields as Metadata.__init__ sets them before it *)
(* calls _initialize, for each input of a family.  A family varies some of *)
(* the tags and overrides over all their combinations and leaves the rest  *)
(* as in BaseAlbum and BaseArgs.                                           *)

\* a document that was not built
NoDoc == [built |-> FALSE]

\* no RandomChapterID was made and no document built
NoChapters ==
    /\ ids = <<>>
    /\ objs = <<>>
    /\ mdata = None
    /\ tagdoc = NoDoc
    /\ chapdoc = NoDoc

\* no time code is being converted
NoTimes ==
    /\ cue_time = None
    /\ mka_time = None
    /\ cue_back = None
    /\ mka_back = None

\* no name is being substituted
NoNames ==
    /\ rawname = None
    /\ tool = None
    /\ clean = None
    /\ again = None

\* no FileName was made
NoFileName ==
    /\ base = None
    /\ isdir = {}
    /\ basename = None
    /\ reserved = EmptyDict
    /\ history = <<>>
    /\ result = NoDoc
    /\ nerr = NoError

\* no pipeline runs
NoRun ==
    /\ opts = NoDoc
    /\ fsys = {}
    /\ fsys0 = {}
    /\ created = {}
    /\ exitfuncs = <<>>
    /\ target = EmptyDict
    /\ step = "none"
    /\ raised = NoError
    /\ toolruns = EmptyDict

\* no CUE sheet is rewritten
NoRewrite ==
    /\ cuesheet = <<>>
    /\ outputcue = None
    /\ outlines = NoDoc

\* the rest of the program is at rest
RestIdle == NoChapters /\ NoTimes /\ NoFileName /\ NoRun /\ NoRewrite

\* Metadata.__init__ up to its call of _initialize, for a source as given
StartFrom(v, src, a) ==
    /\ RestIdle
    /\ variant = v
    /\ source = src
    /\ args = a
    /\ pc = "new"
    /\ data = InitialData
    /\ channels = Stereo
    /\ discs = 1
    /\ tracks = <<>>
    /\ filename = None
    /\ forced_filename = FALSE
    /\ disc_data = EmptyDict
    /\ merged = [data |-> EmptyDict, discs |-> 0]
    /\ err = NoError
    /\ outname = None
    /\ rawname = None
    /\ tool = None
    /\ clean = None
    /\ again = None

\* the same for an album, as FLAC files or as a CUE sheet
Start(v, al, a) == StartFrom(v, IF v = "Cue" THEN CueSource(al) ELSE FlacSource(al), a)

\* no Metadata object is under construction
NoMetadata ==
    /\ pc = "none"
    /\ variant = None
    /\ source = None
    /\ args = None
    /\ data = None
    /\ channels = None
    /\ discs = 0
    /\ tracks = <<>>
    /\ filename = None
    /\ forced_filename = FALSE
    /\ disc_data = None
    /\ merged = None
    /\ err = NoError
    /\ outname = None

\* the class GetMetadata picks follows --multidisc
StartWith(v, al, a) == Start(v, al, [a EXCEPT !.multidisc = (v = "Multidisc")])

S_x == <<"x">>

S_pad == <<" ", "x", " ">>

S_O == <<"O">>

S_1999 == <<"1", "9", "9", "9">>

S_L == <<"L">>

S_2005 == <<"2", "0", "0", "5">>

S_SACD == <<"S", "A", "C", "D">>

S_Vinyl == <<"V", "i", "n", "y", "l">>

\* disc tags of the source against the disc overrides; --multidisc and
\* --nodiscs exclude each other on the command line
DiscInit ==
    \E v \in {"Album", "Cue", "Multidisc"} :
    \E dt \in {Absent} \cup NumStrs(1, MaxDiscs) :
    \E dn \in {Absent} \cup NumStrs(1, MaxDiscs) :
    \E k \in {None} \cup NumStrs(1, MaxDiscs) :
    \E d \in {None} \cup NumStrs(1, MaxDiscs) :
    \E nd \in IF v = "Multidisc" THEN {FALSE} ELSE BOOLEAN :
        StartWith(v,
                  [BaseAlbum EXCEPT
                      !.tags = PutOpt(PutOpt(BaseTags, "DISCTOTAL", dt), "DISCNUMBER", dn)],
                  [BaseArgs EXCEPT !.disc = k, !.discs = d, !.nodiscs = nd])

\* a CUE sheet read without any command line
NoArgsInit ==
    \E dt \in {Absent} \cup NumStrs(1, MaxDiscs) :
    \E dn \in {Absent} \cup NumStrs(1, MaxDiscs) :
    \E lb \in {Absent, S_L} :
        Start("Cue",
              [BaseAlbum EXCEPT
                  !.tags = PutOpt(PutOpt(PutOpt(BaseTags, "DISCTOTAL", dt),
                                         "DISCNUMBER", dn), "LABEL", lb)],
              NoArgs)

\* the tags the audio file of a CUE sheet may supply
AudioTags ==
    [k \in {"TITLE", "ARTIST", "GENRE", "DATE"} |-> IF k = "DATE" THEN S_1999 ELSE S_x]

\* the required tags of the source: absent, empty or padded with blanks;
\* overridden all four or not at all, or absent and overridden one by one;
\* the audio file of a CUE sheet has them all or has none
RequiredInit ==
    \E v \in {"Album", "Cue"} :
    \E au \in IF v = "Cue" THEN {EmptyDict, AudioTags} ELSE {EmptyDict} :
        \/ \E t \in {Absent, <<>>, S_pad} :
           \E ar \in {Absent, <<>>, S_pad} :
           \E g \in {Absent, <<>>, S_pad} :
           \E dt \in {Absent, <<>>, S_2001} :
           \E o \in {None, S_O} :
               StartWith(v,
                         [BaseAlbum EXCEPT
                             !.tags = PutOpt(PutOpt(PutOpt(PutOpt(EmptyDict, "ALBUM", t),
                                             "ARTIST", ar), "GENRE", g), "DATE", dt),
                             !.audio = au],
                         [BaseArgs EXCEPT !.album = o, !.artist = o, !.genre = o,
                                          !.year = IF o = None THEN None ELSE S_1999])
        \/ \E ot \in {None, S_O} :
           \E oa \in {None, S_O} :
           \E og \in {None, S_O} :
           \E oy \in {None, S_1999} :
               StartWith(v,
                         [BaseAlbum EXCEPT !.tags = EmptyDict, !.audio = au],
                         [BaseArgs EXCEPT !.album = ot, !.artist = oa, !.genre = og,
                                          !.year = oy])

\* a source that has every album tag, against every set of overrides
FullTags ==
    [k \in {"ALBUM", "ARTIST", "GENRE", "DATE", "LABEL", "ISSUE_DATE", "VERSION",
            "ORIGINAL_MEDIUM"} |->
        IF k = "DATE" THEN S_2001
        ELSE IF k = "ISSUE_DATE" THEN S_2005
        ELSE IF k = "ORIGINAL_MEDIUM" THEN S_SACD
        ELSE S_x]

\* overrides given with blanks around them
S_Opad == <<" ", "O", " ">>

OverrideInit ==
    \E v \in {"Album", "Cue"} :
        \/ \E ot \in {None, S_O} :
           \E oa \in {None, S_O} :
           \E og \in {None, S_O} :
           \E oy \in {None, S_1999} :
           \E ol \in {None, S_O} :
           \E oi \in {None, S_1999} :
           \E ov \in {None, S_O} :
           \E om \in {None, S_Vinyl} :
               StartWith(v, [BaseAlbum EXCEPT !.tags = FullTags],
                         [BaseArgs EXCEPT !.album = ot, !.artist = oa, !.genre = og,
                                          !.year = oy, !.label = ol, !.issuedate = oi,
                                          !.version = ov, !.medium = om])
        \/ \E om \in {None, S_Vinyl, <<" ">> \o S_Vinyl} :
           \E oi \in {None, <<" ">> \o S_1999} :
               StartWith(v, [BaseAlbum EXCEPT !.tags = FullTags],
                         [BaseArgs EXCEPT !.album = S_Opad, !.artist = S_Opad,
                                          !.genre = S_Opad, !.label = S_Opad,
                                          !.issuedate = oi, !.version = S_Opad,
                                          !.medium = om])

\* label, issue date and medium of the source against their overrides
LabelInit ==
    \E v \in {"Album", "Cue"} :
    \E lb \in {Absent, <<>>, S_L} :
    \E idt \in {Absent, <<>>, S_2005} :
    \E md \in {Absent, S_SACD, <<"T", "a", "p", "e">>} :
    \E ol \in {None, S_O, <<" ", "O">>} :
    \E oi \in {None, S_1999} :
    \E om \in {None, S_Vinyl} :
        StartWith(v,
                  [BaseAlbum EXCEPT
                      !.tags = PutOpt(PutOpt(PutOpt(BaseTags, "LABEL", lb),
                                      "ISSUE_DATE", idt), "ORIGINAL_MEDIUM", md)],
                  [BaseArgs EXCEPT !.label = ol, !.issuedate = oi, !.medium = om])

\* dates: up to MaxDateParts components joined by the separators
DateParts ==
    { S_2001, <<"0", "5">>, <<"J", "u", "n", "e">>, <<" ", "2", "0", "0">>,
      <<"2", "0", "0", "1", "1">>, <<>> }

RECURSIVE DateStrings(_)
DateStrings(n) ==
    IF n <= 1 THEN DateParts
    ELSE DateStrings(n - 1)
         \cup { s \o <<sep>> \o p :
                  s \in DateStrings(n - 1), sep \in {"-", "/", "."}, p \in DateParts }

\* dates given as --year
YearOverrides ==
    { S_1999, <<"1", "9", "9", "9", "-", "0", "5", "-", "0", "3">>,
      <<"0", "5", "/", "1", "9", "9", "9">>, <<" ", "1", "9", "9", "9", " ">>,
      <<"J", "u", "n", "e", ".", "1", "9", "9", "9">>, <<"9", "9">> }

\* the date of the source, and the date given as --year
DateInit ==
    \/ \E dt \in DateStrings(MaxDateParts) :
           StartWith("Album", [BaseAlbum EXCEPT !.tags = Put(BaseTags, "DATE", dt)],
                     BaseArgs)
    \/ \E oy \in YearOverrides :
       \E v \in {"Album", "Cue"} :
           StartWith(v, BaseAlbum, [BaseArgs EXCEPT !.year = oy])

\* track lists: up to MaxTracks tracks numbered up to MaxTrackNo, without a
\* number or with one that is no number; and the album of ten tracks
TrackChoices ==
    { TrackDesc(<<"s">>, n) : n \in NumStrs(1, MaxTrackNo) \cup {Absent, S_x} }

RECURSIVE TrackLists(_)
TrackLists(n) ==
    IF n = 0 THEN {<<>>}
    ELSE TrackLists(n - 1)
         \cup { Append(ts, t) : ts \in {l \in TrackLists(n - 1) : Len(l) = n - 1},
                                t \in TrackChoices }

TenTracks == [i \in 1..10 |-> TrackDesc(<<"s">>, StrOf(i))]

TrackInit ==
    \E v \in {"Album", "Cue", "Multidisc"} :
    \E ts \in (TrackLists(MaxTracks) \ {<<>>}) \cup {TenTracks} :
        StartWith(v,
                  [BaseAlbum EXCEPT
                      !.tags = IF v = "Multidisc"
                               THEN Put(BaseTags, "DISCNUMBER", <<"1">>)
                               ELSE BaseTags,
                      !.trks = ts],
                  BaseArgs)

\* the tags the output name is made of; and names with characters no file
\* name may hold
NameInit ==
    \/ \E vs \in {Absent, <<"V">>} :
       \E dd \in { <<Absent, Absent>>, << <<"2">>, <<"1">> >> } :
       \E dn \in {Absent, <<"D", "N">>, <<>>} :
       \E lb \in {Absent, S_L, <<>>} :
       \E idt \in {Absent, S_2005, <<>>} :
       \E md \in {None, S_SACD} :
       \E ch \in {1, 2, 6} :
           StartWith("Album",
                     [BaseAlbum EXCEPT
                         !.tags = PutOpt(PutOpt(PutOpt(PutOpt(PutOpt(PutOpt(
                                     BaseTags, "VERSION", vs), "DISCTOTAL", dd[1]),
                                     "DISCNUMBER", dd[2]), "DISC_NAME", dn),
                                     "LABEL", lb), "ISSUE_DATE", idt),
                         !.info = [CdInfo EXCEPT !.channels = ch]],
                     [BaseArgs EXCEPT !.medium = md])
    \/ \E ar \in {S_A, <<"A", "/", "B">>, <<"<", "A", ">", "|">>} :
       \E t \in {S_T,
                 <<"L", "i", "v", "e", ":", " ", "\"", "S", "h", "o", "w", "\"">>,
                 <<"T", "\\", "*">>} :
       \E vs \in {Absent, <<"V">>, <<"?">>} :
           StartWith("Album",
                     [BaseAlbum EXCEPT
                         !.tags = PutOpt(Put(Put(BaseTags, "ARTIST", ar), "ALBUM", t),
                                         "VERSION", vs)],
                     BaseArgs)

\* the stream info of the audio
AudioInit ==
    \E v \in {"Album", "Cue"} :
    \E ch \in {1, 2, 4, 6} :
    \E rate \in {44100, 48000, 88200, 96000} :
    \E bits \in {16, 24} :
        StartWith(v,
                  [BaseAlbum EXCEPT
                      !.info = [channels |-> ch, sample_rate |-> rate,
                                bits_per_sample |-> bits]],
                  BaseArgs)

\* a class constructed against the --multidisc flag
MismatchInit ==
    \/ Start("Album", BaseAlbum, [BaseArgs EXCEPT !.multidisc = TRUE])
    \/ Start("Multidisc", BaseAlbum, BaseArgs)

Init ==
    \/ DiscInit
    \/ NoArgsInit
    \/ RequiredInit
    \/ OverrideInit
    \/ LabelInit
    \/ DateInit
    \/ TrackInit
    \/ NameInit
    \/ AudioInit
    \/ MismatchInit

Spec == Init /\ [][Next]_vars

-----------------------------------------------------------------------------
(* The properties of the constructed object.                               *)

\* the constructor returned an object
Constructed == pc \in {"done", "named"}

\* the constructor raised
Failed == pc = "failed"

\* _MergeWithArgs has reached its _Validate
Merged == merged.discs > 0

\* C1: an object that is constructed has PART_NUMBER exactly when discs > 1;
\* and when _MergeWithArgs leaves discs > 1 without PART_NUMBER, or
\* PART_NUMBER with discs < 2, the constructor raises DiscConfigurationError.
C1_PartNumberIffDiscs ==
    /\ Constructed => (("PART_NUMBER" \in DOMAIN data) <=> (discs > 1))
    /\ (Merged /\ (("PART_NUMBER" \in DOMAIN merged.data) # (merged.discs > 1)))
           => (Failed /\ err = "DiscConfigurationError")

\* C1: an object of MaxDiscs discs is constructed, its disc number set
C1_Witness ==
    /\ Constructed
    /\ discs = MaxDiscs
    /\ "PART_NUMBER" \in DOMAIN data

\* C1: a disc number without a disc count ended the construction
C1_WitnessFatal ==
    /\ Failed
    /\ err = "DiscConfigurationError"
    /\ "PART_NUMBER" \in DOMAIN merged.data
    /\ merged.discs = 1


\* the tag of the audio files that supplies a required tag
FileKey(tag) ==
    IF tag = "DATE_RECORDED" THEN "DATE"
    ELSE IF tag = "TITLE" /\ variant # "Cue" THEN "ALBUM"
    ELSE tag

\* the word a line of the CUE sheet opens with to supply a required tag
CueWord(tag) ==
    IF tag = "TITLE" THEN <<"T", "I", "T", "L", "E", " ">>
    ELSE IF tag = "ARTIST" THEN <<"P", "E", "R", "F", "O", "R", "M", "E", "R", " ">>
    ELSE IF tag = "GENRE" THEN <<"R", "E", "M", " ", "G", "E", "N", "R", "E", " ">>
    ELSE <<"R", "E", "M", " ", "D", "A", "T", "E", " ">>

\* what the source gives for a required tag: the values of the audio files'
\* tags and of the lines of the CUE sheet
SourceValues(tag) ==
    { source.disk[f].tags[FileKey(tag)] :
        f \in {g \in DOMAIN source.disk : FileKey(tag) \in DOMAIN source.disk[g].tags} }
    \cup { Strip(SubSeq(source.cue[i], Len(CueWord(tag)) + 1, Len(source.cue[i]))) :
             i \in {j \in 1..Len(source.cue) : StartsWith(source.cue[j], CueWord(tag))} }

\* the override of a required tag, None when the command line has none
OverrideOf(tag) ==
    IF ~args.given THEN None
    ELSE IF tag = "TITLE" THEN args.album
    ELSE IF tag = "ARTIST" THEN args.artist
    ELSE IF tag = "GENRE" THEN args.genre
    ELSE args.year

Required == {"TITLE", "ARTIST", "GENRE", "DATE_RECORDED"}

\* C2, as the specification states it: the required tags of a constructed
\* object are non-empty strings, and a required tag that the source lacks
\* or leaves empty, without an override, fails the construction.
C2_RequiredNonEmpty ==
    /\ Constructed =>
           \A tag \in Required :
               tag \in DOMAIN data /\ data[tag] # None /\ data[tag] # <<>>
    /\ \A tag \in Required :
           ((\A v \in SourceValues(tag) : v \in {<<>>, <<"\"", "\"">>})
            /\ ~Truthy(OverrideOf(tag))) => ~Constructed

\* C2, as the code has it: the required tags of a constructed object are
\* present and hold strings, DATE_RECORDED one of 4 characters; a required
\* tag that the source lacks, without an override, fails the construction.
C2_RequiredPresent ==
    /\ Constructed =>
           /\ \A tag \in Required : tag \in DOMAIN data /\ data[tag] # None
           /\ Len(data["DATE_RECORDED"]) = 4
    /\ \A tag \in Required :
           (SourceValues(tag) = {} /\ ~Truthy(OverrideOf(tag))) => ~Constructed

\* C2: the source has no genre, no override gives one, and the constructor
\* raised TagNotFoundError
C2_Witness ==
    /\ Failed
    /\ err = "TagNotFoundError"
    /\ SourceValues("GENRE") = {}
    /\ ~Truthy(OverrideOf("GENRE"))

\* C2: an object is constructed from a source whose album tag is empty
C2_WitnessEmpty ==
    /\ Constructed
    /\ data["TITLE"] = <<>>
    /\ SourceValues("TITLE") # {}


\* the source says nothing of discs: no DISCTOTAL or DISCNUMBER tag in the
\* audio files, no REM DISCS or REM DISC line in the CUE sheet
NoDiscInfo ==
    /\ \A f \in DOMAIN source.disk :
           {"DISCTOTAL", "DISCNUMBER"} \cap DOMAIN source.disk[f].tags = {}
    /\ \A i \in 1..Len(source.cue) :
           /\ ~StartsWith(source.cue[i], <<"R", "E", "M", " ", "D", "I", "S", "C", "S", " ">>)
           /\ ~StartsWith(source.cue[i], <<"R", "E", "M", " ", "D", "I", "S", "C", " ">>)

\* the command line gives --disc k and --discs d, d >= 2
BothDiscOverrides ==
    /\ args.given
    /\ Truthy(args.disc)
    /\ Truthy(args.discs)
    /\ IsInt(args.discs)
    /\ IntOf(args.discs) >= 2

\* the command line gives one of --disc and --discs without the other
OneDiscOverride == args.given /\ (Truthy(args.disc) # Truthy(args.discs))

C3_WitnessIgnored ==
    /\ Constructed
    /\ NoDiscInfo
    /\ ~args.nodiscs
    /\ OneDiscOverride
    /\ Truthy(args.discs)


\* a string of exactly 4 digits
FourDigits(s) == Len(s) = 4 /\ AllDigits(s)

\* DATE_RECORDED as the overrides left it, trimmed; None when there is none
MergedDate ==
    IF Merged /\ Get(merged.data, "DATE_RECORDED") # None
    THEN Strip(Get(merged.data, "DATE_RECORDED")) ELSE None

\* the components of that date between '-', '/' and '.' that are 4 digits
MergedYears ==
    IF MergedDate = None THEN {}
    ELSE LET parts == Split(MergedDate, {"-", "/", "."})
         IN  {parts[i] : i \in {j \in 1..Len(parts) : FourDigits(parts[j])}}

\* C4, as the specification states it: a DATE_RECORDED that has a component
\* of exactly 4 digits between '-', '/' and '.' is reduced to that
\* component, a DATE_RECORDED without one fails the construction, and so
\* the DATE_RECORDED of a constructed object is exactly 4 digits.
C4_FourDigitYear ==
    /\ (Constructed /\ MergedYears # {}) => data["DATE_RECORDED"] \in MergedYears
    /\ (MergedDate # None /\ MergedYears = {}) => ~Constructed
    /\ Constructed => FourDigits(data["DATE_RECORDED"])

\* C4: a date with a year in it went through _Finalize
C4_Witness ==
    /\ Constructed
    /\ Len(MergedDate) > 4
    /\ data["DATE_RECORDED"] = S_2001


\* the overrides that set a tag whenever they are given, and their tags
PlainOverrides ==
    { <<"TITLE", args.album>>, <<"ARTIST", args.artist>>, <<"GENRE", args.genre>>,
      <<"VERSION", args.version>>, <<"ORIGINAL_MEDIUM", args.medium>> }

\* all the overrides and their tags
AllOverrides ==
    PlainOverrides
    \cup { <<"DATE_RECORDED", args.year>>, <<"LABEL", args.label>>,
           <<"ISSUE_DATE", args.issuedate>> }

\* the year _Finalize makes of a trimmed date: the date when it has 4
\* characters, else its first component of 4 characters
YearOf(date) ==
    LET parts == Split(date, {"-", "/", "."})
        four == {i \in 1..Len(parts) : Len(parts[i]) = 4}
    IN  IF Len(date) = 4 \/ four = {} THEN date
        ELSE parts[CHOOSE i \in four : \A j \in four : i <= j]

\* C5, as the specification states it: the tag of every override that is
\* given holds the value of the override in the constructed object.
C5_OverrideValueKept ==
    (Constructed /\ args.given) =>
        \A o \in AllOverrides : Truthy(o[2]) => Get(data, o[1]) = o[2]

\* C5, as the code has it: in the constructed object the tags of the
\* overrides album, artist, genre, version and medium hold the trimmed
\* override; DATE_RECORDED holds the year of the trimmed override year;
\* LABEL holds the trimmed override label when an ISSUE_DATE came with it,
\* from the source or from the override issuedate, and else LABEL and
\* ISSUE_DATE are both absent; ISSUE_DATE holds the trimmed override
\* issuedate when a LABEL came with it, from the source or from the
\* override label, and else LABEL and ISSUE_DATE are both absent.
C5_OverrideWins ==
    (Constructed /\ args.given) =>
        /\ \A o \in PlainOverrides : Truthy(o[2]) => Get(data, o[1]) = Strip(o[2])
        /\ Truthy(args.year) => data["DATE_RECORDED"] = YearOf(Strip(args.year))
        /\ Truthy(args.label) =>
               IF "ISSUE_DATE" \in DOMAIN merged.data
               THEN Get(data, "LABEL") = Strip(args.label)
               ELSE {"LABEL", "ISSUE_DATE"} \cap DOMAIN data = {}
        /\ Truthy(args.issuedate) =>
               IF "LABEL" \in DOMAIN merged.data
               THEN Get(data, "ISSUE_DATE") = Strip(args.issuedate)
               ELSE {"LABEL", "ISSUE_DATE"} \cap DOMAIN data = {}

\* C5: every tag of the source was overridden at once
C5_Witness ==
    /\ Constructed
    /\ args.given
    /\ \A o \in AllOverrides : Truthy(o[2]) /\ Get(data, o[1]) = o[2]
    /\ data["TITLE"] = S_O

\* C5: the override label is dropped for want of an issue date
C5_WitnessDropped ==
    /\ Constructed
    /\ args.given
    /\ Truthy(args.label)
    /\ "LABEL" \notin DOMAIN data


\* the track numbers of the track records
TrackNumbers == {IntOf(tracks[i][K_track]) : i \in 1..Len(tracks)}

\* C6: a constructed object has TOTAL_PARTS exactly when its class sums the
\* parts (AlbumMetadata, CueMetadata, not MultidiscMetadata); TOTAL_PARTS is
\* then the decimal string of the largest track number of the track
\* records, not their count; and 10 files with TRACKNUMBER 1..10 and no
\* disc tags give discs == 1, no PART_NUMBER and TOTAL_PARTS == "10".
C6_TotalParts ==
    Constructed =>
        /\ ("TOTAL_PARTS" \in DOMAIN data) <=> (variant \in {"Album", "Cue"})
        /\ variant \in {"Album", "Cue"} =>
               \E m \in TrackNumbers :
                   /\ \A n \in TrackNumbers : n <= m
                   /\ data["TOTAL_PARTS"] = StrOf(m)
        /\ (variant = "Album" /\ NoDiscInfo /\ ~Truthy(args.disc) /\ ~Truthy(args.discs)
            /\ Len(tracks) = 10 /\ TrackNumbers = 1..10) =>
               /\ discs = 1
               /\ "PART_NUMBER" \notin DOMAIN data
               /\ data["TOTAL_PARTS"] = <<"1", "0">>

\* C6: fewer track records than the largest track number
C6_Witness ==
    /\ Constructed
    /\ variant = "Album"
    /\ Len(tracks) = MaxTracks
    /\ data["TOTAL_PARTS"] = StrOf(MaxTrackNo)

\* C6: the album of 10 files
C6_WitnessTen ==
    /\ Constructed
    /\ variant = "Album"
    /\ Len(tracks) = 10
    /\ data["TOTAL_PARTS"] = <<"1", "0">>

\* C6: an object of MultidiscMetadata
C6_WitnessMultidisc ==
    /\ Constructed
    /\ variant = "Multidisc"
    /\ "TOTAL_PARTS" \notin DOMAIN data

\* LABEL without ISSUE_DATE or ISSUE_DATE without LABEL, as _MergeWithArgs
\* left them
OneOfLabelAndDate ==
    /\ Merged
    /\ ("LABEL" \in DOMAIN merged.data) # ("ISSUE_DATE" \in DOMAIN merged.data)

\* the tags _MergeWithArgs left, LABEL and ISSUE_DATE taken out
MergedWithoutLabel == Del(Del(merged.data, "LABEL"), "ISSUE_DATE")

\* C7: a constructed object has LABEL exactly when it has ISSUE_DATE; when
\* _MergeWithArgs leaves one without the other, an object that is
\* constructed has neither, and a construction that fails raises what the
\* same tags without the two raise.
C7_LabelIffIssueDate ==
    /\ Constructed => (("LABEL" \in DOMAIN data) <=> ("ISSUE_DATE" \in DOMAIN data))
    /\ OneOfLabelAndDate =>
           /\ ~Failed => {"LABEL", "ISSUE_DATE"} \cap DOMAIN data = {}
           /\ Failed =>
                  \/ err = ValidateError(MergedWithoutLabel, merged.discs)
                  \/ /\ ValidateError(MergedWithoutLabel, merged.discs) = NoError
                     /\ err \in {"ValueError", "RuntimeError"}

\* C7: the override of the label, without any issue date, is cleared and
\* the object is constructed
C7_Witness ==
    /\ Constructed
    /\ OneOfLabelAndDate
    /\ "LABEL" \in DOMAIN merged.data
    /\ {"LABEL", "ISSUE_DATE"} \cap DOMAIN data = {}

\* C8, as the specification states it: no tag of a constructed object has
\* leading or trailing whitespace.
C8_ValuesTrimmed ==
    Constructed => \A k \in DOMAIN data : data[k] = Strip(data[k])

\* C8: a tag of the source with blanks around it went into the object
C8_Witness ==
    /\ Constructed
    /\ merged.data["TITLE"] = S_pad
    /\ data["TITLE"] = S_x


\* the value of a tag of the object, empty when the tag is unset
Tag(k) == Get(data, k)

\* the items inside the parentheses of the label: the medium is left out
\* when it is CD, the channels when they are 2.0
LabelItems ==
    <<Tag("LABEL"), Tag("ISSUE_DATE")>>
    \o (IF Tag("ORIGINAL_MEDIUM") = CD THEN <<>> ELSE <<Tag("ORIGINAL_MEDIUM")>>)
    \o <<IF channels = Stereo THEN <<>> ELSE channels>>

\* ' (Version)', or nothing
VersionSegment ==
    IF Tag("VERSION") = <<>> THEN <<>>
    ELSE <<" ", "(">> \o Tag("VERSION") \o <<")">>

\* ' (Disc N)' and ' DiscName', each only when it is there
DiscSegment ==
    (IF Tag("PART_NUMBER") = <<>> THEN <<>>
     ELSE <<" ", "(", "D", "i", "s", "c", " ">> \o Tag("PART_NUMBER") \o <<")">>)
    \o (IF Tag("DISC_NAME") = <<>> THEN <<>> ELSE <<" ">> \o Tag("DISC_NAME"))

\* ' (Label IssueDate Medium Channels)', or nothing when every item is empty
LabelSegment ==
    IF \A i \in 1..Len(LabelItems) : LabelItems[i] = <<>> THEN <<>>
    ELSE <<" ", "(">> \o Strip(Join(LabelItems, <<" ">>)) \o <<")">>

\* the name before the characters no file name may hold are dealt with
ExpectedName ==
    Tag("ARTIST") \o <<" ", "-", " ">> \o Tag("DATE_RECORDED") \o <<" ", "-", " ">>
        \o Tag("TITLE") \o VersionSegment \o DiscSegment \o LabelSegment
        \o <<".", "w", "a", "v">>

\* the tags the name is made of are trimmed and free of blanks in a row
\* and of the characters that are removed, the required ones are not empty,
\* and a LABEL comes with an ISSUE_DATE
CleanTags ==
    /\ \A k \in DOMAIN data :
           /\ data[k] = Strip(data[k])
           /\ ~Contains(data[k], <<" ", " ">>)
           /\ \A i \in 1..Len(data[k]) : data[k][i] \notin {"|", "?", "*"}
    /\ \A k \in {"ARTIST", "DATE_RECORDED", "TITLE"} : Tag(k) # <<>>
    /\ Tag("LABEL") # <<>> => Tag("ISSUE_DATE") # <<>>

\* the scenario of the specification
ScenarioTags ==
    /\ Tag("ARTIST") = <<"A", "/", "B">>
    /\ Tag("DATE_RECORDED") = S_2001
    /\ Tag("TITLE") = <<"L", "i", "v", "e", ":", " ", "\"", "S", "h", "o", "w", "\"">>
    /\ {"VERSION", "PART_NUMBER", "DISC_NAME", "LABEL", "ISSUE_DATE"} \cap DOMAIN data = {}
    /\ Tag("ORIGINAL_MEDIUM") = CD
    /\ channels = Stereo

ScenarioName ==
    <<"A", "-", "B", " ", "-", " ", "2", "0", "0", "1", " ", "-", " ",
      "L", "i", "v", "e", "-", " ", "'", "S", "h", "o", "w", "'", ".", "w", "a", "v">>

\* C9: without a forced filename, GetOutputFilename() of a constructed
\* object returns 'Artist - Year - Title', then ' (Version)' only when
\* VERSION is not empty, then the disc segment only when PART_NUMBER or
\* DISC_NAME is not empty, then ' (Label IssueDate Medium Channels)' only
\* when an item of it is not empty, the medium left out when it is CD and
\* the channels when they are 2.0, with the characters no file name may
\* hold replaced; a segment that is left out leaves no '()', no two blanks
\* in a row and no blank before the extension; and the tags of the scenario
\* give "A-B - 2001 - Live- 'Show'.wav".
C9_OutputFilename ==
    (pc = "named" /\ ~forced_filename) =>
        /\ outname = Sanitize(ExpectedName)
        /\ CleanTags =>
               /\ ~Contains(outname, <<"(", ")">>)
               /\ ~Contains(outname, <<" ", " ">>)
               /\ ~Contains(outname, <<" ", ".", "w", "a", "v">>)
        /\ ScenarioTags => outname = ScenarioName

\* C9: the name of the scenario was returned
C9_Witness ==
    /\ pc = "named"
    /\ ScenarioTags
    /\ outname = ScenarioName

\* C9: a name with a disc, a disc name and a label of four items
C9_WitnessFull ==
    /\ pc = "named"
    /\ CleanTags
    /\ Tag("PART_NUMBER") # <<>>
    /\ Tag("DISC_NAME") # <<>>
    /\ Tag("VERSION") # <<>>
    /\ \A i \in 1..Len(LabelItems) : LabelItems[i] # <<>>
    /\ Len(LabelItems) = 4

-----------------------------------------------------------------------------
(* The substitutions GetOutputFilename and flac_rename.NewName make in a   *)
(* name, on their own: every name of up to MaxNameLen characters goes      *)
(* through one of the two, and what comes out goes through it again.       *)

\* the nine characters no file name may hold, a letter and a blank
NameChars == {"<", ">", ":", "/", "\\", "|", "?", "*", "\"", "a", " "}

RECURSIVE Names(_)
Names(n) ==
    IF n = 0 THEN {<<>>}
    ELSE Names(n - 1)
         \cup { Append(s, c) : s \in {t \in Names(n - 1) : Len(t) = n - 1},
                               c \in NameChars }

SanInit ==
    /\ NoMetadata
    /\ RestIdle
    /\ rawname \in Names(MaxNameLen)
    /\ tool = None
    /\ clean = None
    /\ again = None

\* GetOutputFilename, from the merged name on
SanitizeOutputName ==
    /\ clean = None
    /\ tool' = "GetOutputFilename"
    /\ clean' = Sanitize(rawname)
    /\ UNCHANGED <<rawname, again, mvars, xvars>>

\* flac_rename.NewName, from the formatted name on
SanitizeNewName ==
    /\ clean = None
    /\ tool' = "NewName"
    /\ clean' = NewNameSanitize(rawname)
    /\ UNCHANGED <<rawname, again, mvars, xvars>>

\* the name that came out goes in again
SanitizeAgain ==
    /\ clean # None
    /\ again = None
    /\ again' = IF tool = "NewName" THEN NewNameSanitize(clean) ELSE Sanitize(clean)
    /\ UNCHANGED <<rawname, tool, clean, mvars, xvars>>

SanNext ==
    \/ SanitizeOutputName
    \/ SanitizeNewName
    \/ SanitizeAgain

SpecSan == SanInit /\ [][SanNext]_vars

\* what the sanitizer is to make of a character
CleanChar(c) ==
    IF c \in {"<", ">", ":", "/", "\\"} THEN <<"-">>
    ELSE IF c \in {"|", "?", "*"} THEN <<>>
    ELSE IF c = "\"" THEN <<"'">>
    ELSE <<c>>

\* and of a name, character by character
RECURSIVE CleanName(_)
CleanName(s) == IF s = <<>> THEN <<>> ELSE CleanChar(Head(s)) \o CleanName(Tail(s))

\* C10: the sanitizer of GetOutputFilename and of the rename tool replaces
\* every < > : / \ of a name with '-', removes every | ? * and replaces
\* every double quote with a single quote, so that none of the nine is in
\* its result; and applied to its result it returns it unchanged.
C10_Sanitizer ==
    /\ clean # None =>
           /\ clean = CleanName(rawname)
           /\ \A i \in 1..Len(clean) :
                  clean[i] \notin {"<", ">", ":", "/", "\\", "|", "?", "*", "\""}
    /\ again # None => again = clean

\* C10: a name of the three kinds of character went through twice
C10_Witness ==
    /\ again # None
    /\ Len(rawname) >= 3
    /\ SubSeq(rawname, 1, 3) = <<"\\", "?", "\"">>
    /\ SubSeq(again, 1, 2) = <<"-", "'">>

-----------------------------------------------------------------------------
(* The chapter identifiers (chapterid.RandomChapterID) and the two        *)
(* documents that quote them.  RandomID draws a 16 digit integer; here it *)
(* draws from as many integers as the greatest request needs, which       *)
(* leaves the list, the set and the indexing of the class as they are.    *)

\* the greatest n a RandomChapterID is asked for
MaxChapters == 2

\* the number of RandomChapterID objects of one process
MaxRequests == 3

\* the integers RandomID may return
IDSpace == 1..(MaxChapters + 1)

\* set(a list)
Range(s) == {s[i] : i \in 1..Len(s)}

\* list(a set): its members once each, in the order the set yields them
Listings(S) ==
    IF S = {} THEN {<<>>}
    ELSE {s \in [1..Cardinality(S) -> S] : Range(s) = S}

\* a list indexed the Python way, -1 being its last entry
IndexOk(s, k) == (0 - Len(s)) <= k /\ k < Len(s)

PyIndex(s, k) == IF k < 0 THEN s[Len(s) + k + 1] ELSE s[k + 1]

\* the while loop of __init__: RandomID values join the set of the list until
\* it holds n of them
Grown(pool, n) ==
    LET old == Range(pool)
    IN  IF Cardinality(old) >= n THEN {old}
        ELSE {S \in SUBSET IDSpace : old \subseteq S /\ Cardinality(S) = n}

NewIDs_All(S, pool) == S

\* new_ids = ids - set(old_ids)
NewIDs(S, pool) == S \ Range(pool)

Extend_Front(pool, new) == new \o pool

\* RandomChapterID.ids += list(new_ids)
Extend(pool, new) == pool \o new

\* RandomChapterID.__init__(n): the lists it may leave in the class
Pools(pool, n) ==
    IF Len(pool) > n + 1 THEN {pool}
    ELSE UNION { {Extend(pool, l) : l \in Listings(NewIDs(S, pool))} :
                 S \in Grown(pool, n + 1) }

\* the object __init__ leaves: self.n, and with it what ids[0:self.n] was
\* when it was made
NewObject(pool, n) == [n |-> n + 1, seen |-> Slice(pool, 0, n + 1)]

\* ids[0:self.n] as it is now
View(pool, self) == Slice(pool, 0, self.n)

GetID_WholeList(pool, self, k) == PyIndex(pool, k)

\* RandomChapterID.GetID, which is __getitem__
GetID(pool, self, k) == PyIndex(View(pool, self), k)

GetIDOk(pool, self, k) == IndexOk(View(pool, self), k)

\* MatroskaTagger.GetChapterUID
TaggerChapterUID(pool, self, num) == StrOf(GetID(pool, self, num))

ChaptersChapterUID_FromEnd(pool, self, num) ==
    StrOf(IF num < 0 THEN PyIndex(pool, num) ELSE PyIndex(pool, num - self.n))

\* MatroskaChapters.GetChapterUID
ChaptersChapterUID(pool, self, num) == StrOf(GetID(pool, self, num))

\* a Metadata of n tracks
MetadataOf(n) == [tracks |-> [i \in 1..n |-> i]]

ChapInit ==
    /\ NoMetadata
    /\ NoNames
    /\ NoTimes
    /\ NoFileName
    /\ NoRun
    /\ NoRewrite
    /\ ids = <<>>
    /\ objs = <<>>
    /\ mdata \in {MetadataOf(n) : n \in 0..MaxChapters}
    /\ tagdoc = NoDoc
    /\ chapdoc = NoDoc

\* RandomChapterID(n) by any other caller
Request(n) ==
    /\ Len(objs) < MaxRequests
    /\ ids' \in Pools(ids, n)
    /\ objs' = Append(objs, NewObject(ids', n))
    /\ UNCHANGED <<mdata, tagdoc, chapdoc, cother>>

\* MatroskaTagger(mdata): one RandomChapterID, then CreateTags with a
\* CreateTrackTag for each track
NewTagger ==
    /\ ~tagdoc.built
    /\ Len(objs) < MaxRequests
    /\ LET n == Len(mdata.tracks)
       IN  /\ ids' \in Pools(ids, n)
           /\ objs' = Append(objs, NewObject(ids', n))
           /\ tagdoc' = [built |-> TRUE, ids |-> NewObject(ids', n),
                         uids |-> [i \in 1..n |->
                                    TaggerChapterUID(ids', NewObject(ids', n), i - 1)]]
    /\ UNCHANGED <<mdata, chapdoc, cother>>

\* MatroskaChapters(mdata): one RandomChapterID, then CreateTags with
\* CreateEdition and a CreateTrackTag for each track
NewChapters ==
    /\ ~chapdoc.built
    /\ Len(objs) < MaxRequests
    /\ LET n == Len(mdata.tracks)
       IN  /\ ids' \in Pools(ids, n)
           /\ objs' = Append(objs, NewObject(ids', n))
           /\ chapdoc' = [built |-> TRUE, ids |-> NewObject(ids', n),
                          edition |-> ChaptersChapterUID(ids', NewObject(ids', n), -1),
                          uids    |-> [i \in 1..n |->
                                        ChaptersChapterUID(ids', NewObject(ids', n), i - 1)]]
    /\ UNCHANGED <<mdata, tagdoc, cother>>

ChapNext ==
    \/ \E n \in 0..MaxChapters : Request(n)
    \/ NewTagger
    \/ NewChapters

SpecChap == ChapInit /\ [][ChapNext]_vars

\* C11: across any sequence of RandomChapterID requests the list of the class
\* only grows at its end: the list before a request is a prefix of the list
\* after it.  So what a request of size m saw, and sees, is the first m+1
\* entries of what a later request of a greater size n saw, and sees.
C11_AppendOnly ==
    /\ [][StartsWith(ids', ids)]_vars
    /\ [](\A i \in 1..Len(objs) : \A j \in 1..Len(objs) :
            (i < j /\ objs[i].n < objs[j].n) =>
                /\ Len(objs[i].seen) = objs[i].n
                /\ objs[i].seen = SubSeq(objs[j].seen, 1, objs[i].n)
                /\ View(ids, objs[i]) = SubSeq(View(ids, objs[j]), 1, objs[i].n)
                /\ View(ids, objs[i]) = objs[i].seen)

\* C11: a request of size 1, then one of size 0 that adds nothing, then one
\* of size 2 that adds one
C11_Witness ==
    /\ Len(objs) = 3
    /\ objs[1].n = 2 /\ objs[2].n = 1 /\ objs[3].n = 3
    /\ Len(ids) = 3
    /\ objs[3].seen = ids
    /\ ~tagdoc.built /\ ~chapdoc.built

\* C12: once RandomChapterID(n) is made the list holds at least n+1
\* identifiers, and the object may be indexed with every k of -1..n-1: a k
\* that is not negative returns entry k of the list, and -1 returns entry n,
\* whatever the requests before and after it put in the list.
C12_IndexValid ==
    \A i \in 1..Len(objs) :
        LET self == objs[i]
            n == self.n - 1
        IN  /\ Len(ids) >= n + 1
            /\ \A k \in -1..(n - 1) :
                   /\ GetIDOk(ids, self, k)
                   /\ GetID(ids, self, k) = IF k >= 0 THEN ids[k + 1] ELSE ids[n + 1]

\* C12: an object of size 0 made between one of size 1 and one of size 2;
\* its -1 is the first entry of a list of three
C12_Witness ==
    /\ Len(objs) = 3
    /\ objs[1].n = 2 /\ objs[2].n = 1 /\ objs[3].n = 3
    /\ GetID(ids, objs[2], -1) = ids[1]
    /\ GetID(ids, objs[2], -1) # ids[3]
    /\ GetID(ids, objs[3], -1) = ids[3]

\* C13: after any sequence of requests no identifier is in the list twice; so
\* for each object the identifier at -1 is none of those at 0..n-1, and
\* those differ from each other.
C13_Distinct ==
    /\ \A i \in 1..Len(ids) : \A j \in 1..Len(ids) : i # j => ids[i] # ids[j]
    /\ \A i \in 1..Len(objs) :
           LET self == objs[i]
               n == self.n - 1
           IN  \A k \in 0..(n - 1) :
                   /\ GetID(ids, self, -1) # GetID(ids, self, k)
                   /\ \A l \in 0..(n - 1) :
                          k # l => GetID(ids, self, k) # GetID(ids, self, l)

\* C13: three requests that each added to the list, up to every identifier
\* RandomID can draw
C13_Witness ==
    /\ Len(objs) = 3
    /\ objs[1].n = 1 /\ objs[2].n = 2 /\ objs[3].n = 3
    /\ Range(ids) = IDSpace
    /\ ids[1] > ids[2]

\* C14: for one Metadata of n tracks the ChapterUID of the tag document's
\* block for track i is the ChapterUID of the chapter document's atom for
\* chapter i, for every i of 0..n-1, whichever of the two was built first
\* and whatever RandomChapterID was made in between.
C14_SameChapterUID ==
    (tagdoc.built /\ chapdoc.built) =>
        /\ Len(tagdoc.uids) = Len(mdata.tracks)
        /\ Len(chapdoc.uids) = Len(mdata.tracks)
        /\ \A i \in 1..Len(mdata.tracks) : tagdoc.uids[i] = chapdoc.uids[i]

\* C14: one track, and between the two builders a request of size 2 that
\* added to the list
C14_Witness ==
    /\ tagdoc.built /\ chapdoc.built
    /\ Len(mdata.tracks) = 1
    /\ Len(objs) = 3
    /\ objs[2].n = 3
    /\ Len(ids) = 3
    /\ tagdoc.uids[1] = StrOf(ids[1])

-----------------------------------------------------------------------------
(* The two conversions of tools/util/time.py, there and back.  A float is  *)
(* not the fraction it stands for: where the fraction of a second, or the  *)
(* frame count, is a whole number in exact arithmetic, the float may lie   *)
(* just below it, and the truncation then gives one less.  Both outcomes   *)
(* are kept; everywhere else the truncation does not depend on the         *)
(* rounding.                                                               *)

\* the greatest minute count of the low range of CUE times
MaxCueMinutes == 2

\* what is left of r / 75 after its first n decimal digits
RECURSIVE FracRest(_, _)
FracRest(r, n) ==
    IF n = 0 THEN r ELSE FracRest((10 * r) % FramesPerSecond, n - 1)

\* a natural number in nine digits
RECURSIVE NineDigits(_)
NineDigits(s) == IF Len(s) < 9 THEN NineDigits(<<"0">> \o s) ELSE s

\* Time.Fractional of the float: str(self.time % 1)[2:11].ljust(9, '0')
Fractionals(t) ==
    LET r == t % FramesPerSecond
    IN  IF r # 0 /\ FracRest(r, 9) = 0
        THEN {Fractional(t), NineDigits(StrOf(DigitsVal(Fractional(t), 0) - 1))}
        ELSE {Fractional(t)}

\* Time.MKACode of the float
MKACodes(t) ==
    { Hours(t) \o <<":">> \o Minutes(t) \o <<":">> \o Seconds(t) \o <<".">> \o f :
      f \in Fractionals(t) }

\* CueTimeToMKATime of a str
CueTimeToMKATimes(s) == MKACodes(FromCueCode(s))

\* Time.FromMKATime: float() of the three fields of HH:MM:SS.fffffffff; the
\* time in whole seconds and billionths
FromMKATime(s) ==
    LET f == Split(s, {":"})
        w == Split(f[3], {"."})
    IN  [sec  |-> 3600 * IntOf(f[1]) + 60 * IntOf(f[2]) + IntOf(w[1]),
         nano |-> DigitsVal(w[2], 0)]

\* Time.CueMinutes
CueMinutes(T) == ZFill2(StrOf(T.sec \div 60))

\* Time.Seconds of a time in seconds and billionths
CueSeconds(T) == ZFill2(StrOf(T.sec % 60))

FrameCount_Hundredths(nano) == nano \div (10^7)

\* 75.0 * (self.time % 1) in exact arithmetic, truncated: 75 / 10^9 is taken
\* as 3 / (10^9 / 25), which keeps the products small
FrameCount(nano) ==
    LET unit == (10^9) \div 25
        k == FramesPerSecond \div 25
    IN  k * (nano \div unit) + (k * (nano % unit)) \div unit

\* the product is a whole number
FrameExact(nano) ==
    LET unit == (10^9) \div 25
        k == FramesPerSecond \div 25
    IN  (k * (nano % unit)) % unit = 0

\* Time.Frames of the float
Frames(T) ==
    IF T.nano # 0 /\ FrameExact(T.nano)
    THEN {ZFill2(StrOf(FrameCount(T.nano))), ZFill2(StrOf(FrameCount(T.nano) - 1))}
    ELSE {ZFill2(StrOf(FrameCount(T.nano)))}

\* Time.CueCode of the float
CueCodes(T) ==
    { CueMinutes(T) \o <<":">> \o CueSeconds(T) \o <<":">> \o f : f \in Frames(T) }

\* MKATimeToCueTime of a str
MKATimeToCueTimes(s) == CueCodes(FromMKATime(s))

\* MM:SS:FF, each field in two digits
CueText(m, s, f) ==
    ZFill2(StrOf(m)) \o <<":">> \o ZFill2(StrOf(s)) \o <<":">> \o ZFill2(StrOf(f))

\* the valid CUE times tried: every frame of a few seconds of a few minutes
CueTimes ==
    { CueText(m, s, f) : m \in (0..MaxCueMinutes) \cup {60, 99},
                         s \in {0, 1, 30, 59},
                         f \in 0..(FramesPerSecond - 1) }

TimeInit ==
    /\ NoMetadata
    /\ NoNames
    /\ NoChapters
    /\ NoFileName
    /\ NoRun
    /\ NoRewrite
    /\ cue_time \in CueTimes
    /\ mka_time = None
    /\ cue_back = None
    /\ mka_back = None

\* CueTimeToMKATime(cue_time)
ToMKATime ==
    /\ mka_time = None
    /\ mka_time' \in CueTimeToMKATimes(cue_time)
    /\ UNCHANGED <<cue_time, cue_back, mka_back, tother>>

\* MKATimeToCueTime of what came out
ToCueTime ==
    /\ mka_time # None
    /\ cue_back = None
    /\ cue_back' \in MKATimeToCueTimes(mka_time)
    /\ UNCHANGED <<cue_time, mka_time, mka_back, tother>>

\* and CueTimeToMKATime of that
BackToMKATime ==
    /\ cue_back # None
    /\ mka_back = None
    /\ mka_back' \in CueTimeToMKATimes(cue_back)
    /\ UNCHANGED <<cue_time, mka_time, cue_back, tother>>

TimeNext ==
    \/ ToMKATime
    \/ ToCueTime
    \/ BackToMKATime

SpecTime == TimeInit /\ [][TimeNext]_vars

\* C15: for every valid CUE time x = MM:SS:FF (SS < 60, FF < 75) the time
\* MKATimeToCueTime(CueTimeToMKATime(x)) is at most one CUE frame away
\* from x.
C15_WithinOneFrame ==
    cue_back # None =>
        /\ CueCodeOk(cue_back)
        /\ FromCueCode(cue_back) - FromCueCode(cue_time) \in {-1, 0, 1}

\* C15: 01:59:74 came back as 01:59:73
C15_Witness ==
    /\ cue_time = CueText(1, 59, 74)
    /\ cue_back = CueText(1, 59, 73)

\* C15: a time whose fraction fits in nine digits came back as it was
C15_WitnessSame ==
    /\ cue_time = CueText(60, 30, 3)
    /\ cue_back = cue_time

\* C16: the two conversions are exact inverses on whole frames: for every
\* zero-padded CUE time x, MKATimeToCueTime(CueTimeToMKATime(x)) = x, and
\* for y = CueTimeToMKATime(x), CueTimeToMKATime(MKATimeToCueTime(y)) = y.
C16_ExactInverse ==
    /\ cue_back # None => cue_back = cue_time
    /\ mka_back # None => mka_back = mka_time

-----------------------------------------------------------------------------
(* CueMetadata over CUE sheets given line by line.                         *)

\* the greatest number of lines of a TRACK block after its first
MaxBlockLines == 3

T_TITLE == <<"T", "I", "T", "L", "E">>

\* '    INDEX nn MM:SS:FF'
IndexLine(nn, code) ==
    Indent \o T_INDEX \o <<" ">> \o nn \o <<" ">> \o code \o <<"\n">>

\* '  TRACK nn AUDIO'
TrackLine(nn) == T_TRACK_LINE \o <<" ">> \o nn \o <<" ", "A", "U", "D", "I", "O", "\n">>

FileLine ==
    T_FILE \o <<" ", "\"", "a">> \o WAV \o <<"\"", " ", "W", "A", "V", "E", "\n">>

\* the lines of the four required tags
RequiredHeader == CueHeader(BaseTags, 1)

\* the sheet and the audio file it names, which carries no tags
SheetSource(lines) ==
    [list |-> <<>>,
     cue |-> lines,
     disk |-> [f \in {AudioName} |->
                  [tags |-> EmptyDict,
                   channels |-> CdInfo.channels,
                   sample_rate |-> CdInfo.sample_rate,
                   bits_per_sample |-> CdInfo.bits_per_sample,
                   length |-> 0]]]

\* the lines a TRACK block is made of: three INDEX lines and two titles
BlockPool ==
    { IndexLine(<<"0", "0">>, CueCodeOf(60)),
      IndexLine(<<"0", "1">>, CueCodeOf(120)),
      IndexLine(<<"0", "2">>, CueCodeOf(300)),
      Indent \o Quoted(T_TITLE, <<"s">>),
      Indent \o Quoted(T_TITLE, T_INDEX) }

\* the blocks of up to n different lines, in every order
RECURSIVE Blocks(_)
Blocks(n) ==
    IF n = 0 THEN {<<>>}
    ELSE Blocks(n - 1)
         \cup { Append(b, l) : b \in {c \in Blocks(n - 1) : Len(c) = n - 1},
                               l \in BlockPool }

\* one TRACK block of every kind
IndexInit ==
    \E b \in {c \in Blocks(MaxBlockLines) : \A i, j \in 1..Len(c) : c[i] = c[j] => i = j} :
        StartFrom("Cue",
                  SheetSource(RequiredHeader \o <<FileLine, TrackLine(<<"0", "1">>)>> \o b),
                  BaseArgs)

T_REM_DISC == <<"R", "E", "M", " ", "D", "I", "S", "C">>

T_REM_DISCID == <<"R", "E", "M", " ", "D", "I", "S", "C", "I", "D">>

\* 'REM DISCID 7', as a ripping program leaves it
DiscIdLine == T_REM_DISCID \o <<" ", "7", "\n">>

\* REM DISCS "d" and REM DISC "k" in both orders, alone, before or after a
\* REM DISCID line; and a REM DISCID line alone
DiscLines ==
    UNION { { a \o b \o c :
              a \in {<<>>, <<DiscIdLine>>},
              b \in { <<Quoted(T_REM_DISCS, StrOf(d)), Quoted(T_REM_DISC, StrOf(k))>>,
                      <<Quoted(T_REM_DISC, StrOf(k)), Quoted(T_REM_DISCS, StrOf(d))>> },
              c \in {<<>>, <<DiscIdLine>>} } :
            d \in 1..MaxDiscs, k \in 1..MaxDiscs }
    \cup {<<DiscIdLine>>}

\* two TRACK blocks, the second 210 seconds after the first
TwoBlocks == CueBlocks(<<TrackDesc(<<"s">>, <<"1">>), TrackDesc(<<"s">>, <<"2">>)>>, 0)

DiscLinesInit ==
    \E dl \in DiscLines :
        StartFrom("Cue", SheetSource(RequiredHeader \o dl \o <<FileLine>> \o TwoBlocks),
                  BaseArgs)

\* the keys of the top-level lines and the tags they set
PrefixTable ==
    << <<T_PERFORMER, "ARTIST">>,
       <<T_TITLE, "TITLE">>,
       <<<<"R", "E", "M", " ", "D", "A", "T", "E">>, "DATE_RECORDED">>,
       <<T_REM_DISC, "PART_NUMBER">>,
       <<<<"R", "E", "M", " ", "G", "E", "N", "R", "E">>, "GENRE">>,
       <<<<"R", "E", "M", " ", "I", "S", "S", "U", "E", "_", "D", "A", "T", "E">>,
         "ISSUE_DATE">>,
       <<<<"R", "E", "M", " ", "L", "A", "B", "E", "L">>, "LABEL">>,
       <<<<"R", "E", "M", " ", "V", "E", "R", "S", "I", "O", "N">>, "VERSION">>,
       <<<<"R", "E", "M", " ", "O", "R", "I", "G", "I", "N", "A", "L", "_",
           "M", "E", "D", "I", "U", "M">>, "ORIGINAL_MEDIUM">>,
       <<<<"R", "E", "M", " ", "D", "I", "S", "C", "_", "N", "A", "M", "E">>,
         "DISC_NAME">> >>

\* the values tried for a key: plain, padded, of two words, and with the
\* key as one of its words
ValuesFor(key) ==
    { <<"x">>, <<" ", "x", " ">>, <<"a", " ", "b">>, <<"a", " ">> \o key \o <<" ", "b">> }

\* the required lines, and after them one line of the table with a value
TagLineInit ==
    \E i \in 1..Len(PrefixTable) : \E v \in ValuesFor(PrefixTable[i][1]) :
        StartFrom("Cue",
                  SheetSource(RequiredHeader \o <<Quoted(PrefixTable[i][1], v)>>
                              \o <<FileLine, TrackLine(<<"0", "1">>),
                                   IndexLine(<<"0", "1">>, CueCodeOf(0))>>),
                  BaseArgs)

CueInit ==
    \/ IndexInit
    \/ DiscLinesInit
    \/ TagLineInit

CueNext ==
    \/ CueInitialize
    \/ GetTagPullChannels
    \/ DoPullHDFormat
    \/ MergeWithArgs
    \/ DoValidate
    \/ Finalize
    \/ CallGetOutputFilename

SpecCue == CueInit /\ [][CueNext]_vars

\* a sheet as its reader sees it: where its TRACK blocks start
TrackStarts(lines) == {i \in 1..Len(lines) : StartsWith(lines[i], T_TRACK_LINE)}

\* the i-th of them, counting from 1
RECURSIVE NthOf(_, _)
NthOf(S, n) ==
    LET lo == CHOOSE i \in S : \A j \in S : i <= j
    IN  IF n = 1 THEN lo ELSE NthOf(S \ {lo}, n - 1)

\* the indented lines that follow line i
BlockAt(lines, i) ==
    LET ends == {j \in (i + 1)..Len(lines) : ~StartsWith(lines[j], Indent)}
        last == IF ends = {} THEN Len(lines)
                ELSE (CHOOSE j \in ends : \A k \in ends : j <= k) - 1
    IN  SubSeq(lines, i + 1, last)

\* the time of the last INDEX nn line of a block, None if it has none
IndexTime(block, nn) ==
    LET key == Indent \o T_INDEX \o <<" ">> \o nn \o <<" ">>
        at == {i \in 1..Len(block) : StartsWith(block[i], key)}
    IN  IF at = {} THEN None
        ELSE LET i == CHOOSE k \in at : \A j \in at : j <= k
             IN  Strip(SubSeq(block[i], Len(key) + 1, Len(block[i])))

\* the time the start of the track is to be taken from
StartIndex(block) ==
    IF IndexTime(block, <<"0", "1">>) # None THEN IndexTime(block, <<"0", "1">>)
    ELSE IndexTime(block, <<"0", "0">>)

\* _initialize is over
Initialized == variant = "Cue" /\ pc \notin {"new", "failed"}

\* C17: the start_time of a track of a CUE sheet is the Matroska time of
\* the INDEX 01 of its block if it has one, else of its INDEX 00, whatever
\* other INDEX lines it has; a block with neither makes the construction
\* fail with CueFormatError.
C17_IndexChoice ==
    (variant = "Cue" /\ pc # "new") =>
        LET starts == TrackStarts(source.cue)
            none == {i \in starts : StartIndex(BlockAt(source.cue, i)) = None}
        IN  IF none # {} THEN pc = "failed" /\ err = "CueFormatError"
            ELSE /\ Len(tracks) = Cardinality(starts)
                 /\ \A n \in 1..Cardinality(starts) :
                        tracks[n][K_start_time] =
                            CueTimeToMKATime(StartIndex(BlockAt(source.cue, NthOf(starts, n))))

\* a line of a block other than an INDEX line holds the text INDEX
IndexElsewhere ==
    \E i \in TrackStarts(source.cue) :
        \E l \in 1..Len(BlockAt(source.cue, i)) :
            /\ ~StartsWith(BlockAt(source.cue, i)[l], Indent \o T_INDEX)
            /\ Contains(BlockAt(source.cue, i)[l], T_INDEX)

\* C17, for the blocks that keep the text INDEX to their INDEX lines
C17_IndexChoicePlain == IndexElsewhere \/ C17_IndexChoice

\* C17: INDEX 02, INDEX 00 and INDEX 01 in this order, the start is at 02:00
C17_Witness ==
    /\ Initialized
    /\ Len(tracks) = 1
    /\ BlockAt(source.cue, NthOf(TrackStarts(source.cue), 1))
         = << IndexLine(<<"0", "2">>, CueCodeOf(300)),
              IndexLine(<<"0", "0">>, CueCodeOf(60)),
              IndexLine(<<"0", "1">>, CueCodeOf(120)) >>
    /\ tracks[1][K_start_time] = CueTimeToMKATime(CueCodeOf(120))

\* the top-level lines of a sheet that read key "..." or key ..., last first
TopLines(lines, key) ==
    {i \in 1..Len(lines) : StartsWith(lines[i], key \o <<" ">>)}

\* what follows the key on the last of them, without its quotes
TopValue(lines, key) ==
    LET at == TopLines(lines, key)
        i == CHOOSE k \in at : \A j \in at : j <= k
        rest == Strip(SubSeq(lines[i], Len(key) + 1, Len(lines[i])))
    IN  IF rest # <<>> /\ Head(rest) = "\"" /\ rest[Len(rest)] = "\""
        THEN SubSeq(rest, 2, Len(rest) - 1) ELSE rest

\* the lines of a sheet but those that start with the key
RECURSIVE Without(_, _)
Without(lines, key) ==
    IF lines = <<>> THEN <<>>
    ELSE (IF StartsWith(Head(lines), key) THEN <<>> ELSE <<Head(lines)>>)
         \o Without(Tail(lines), key)

\* the number of the n-th TRACK line
TrackNumber(lines, n) ==
    LStripZero(SubSeq(lines[NthOf(TrackStarts(lines), n)],
                      Len(T_TRACK_LINE) + 2, Len(T_TRACK_LINE) + 3))

C18_WitnessDiscId ==
    /\ Constructed
    /\ variant = "Cue"
    /\ source.cue[5] = DiscIdLine
    /\ discs = 1
    /\ "PART_NUMBER" \notin DOMAIN data

\* C19: for every top-level line KEY "value" with KEY in the prefix table
\* and a value without double quotes, CueMetadata sets the tag of the KEY
\* to the value, trimmed.
C19_DirectTags ==
    (variant = "Cue" /\ pc = "initialized") =>
        \A i \in 1..Len(PrefixTable) :
            LET key == PrefixTable[i][1]
                tag == PrefixTable[i][2]
            IN  TopLines(source.cue, key) # {} =>
                    /\ tag \in DOMAIN data
                    /\ data[tag] = Strip(TopValue(source.cue, key))

\* a value of a top-level line holds the key of its line
KeyInValue ==
    \E i \in 1..Len(PrefixTable) :
        /\ TopLines(source.cue, PrefixTable[i][1]) # {}
        /\ Contains(TopValue(source.cue, PrefixTable[i][1]), PrefixTable[i][1])

\* C19, for the values that do not hold the key of their line
C19_DirectTagsPlain == KeyInValue \/ C19_DirectTags

\* C19: REM LABEL " x " set LABEL to "x"
C19_Witness ==
    /\ variant = "Cue"
    /\ pc = "initialized"
    /\ source.cue[5] = Quoted(<<"R", "E", "M", " ", "L", "A", "B", "E", "L">>, <<" ", "x", " ">>)
    /\ data["LABEL"] = <<"x">>

-----------------------------------------------------------------------------
\* File names by extension: tools/util/namegen.py

\* how many reservations one FileName gets
MaxReservations == 2

\* str.rfind(c): the 0-based place of the last c, -1 without one
RFind(s, c) ==
    LET at == {i \in 1..Len(s) : s[i] = c}
    IN  IF at = {} THEN 0 - 1
        ELSE (CHOOSE i \in at : \A j \in at : j <= i) - 1

\* str.rstrip('/')
RECURSIVE RStripSlash(_)
RStripSlash(s) ==
    IF s # <<>> /\ s[Len(s)] = "/" THEN RStripSlash(SubSeq(s, 1, Len(s) - 1))
    ELSE s

\* os.path.dirname: up to the last '/', without the slashes at its end unless
\* it is nothing but slashes
DirName(p) ==
    LET head == Slice(p, 0, RFind(p, "/") + 1)
    IN  IF head # <<>> /\ RStripSlash(head) # <<>> THEN RStripSlash(head)
        ELSE head

\* os.path.join of two parts
PathJoin(a, b) ==
    IF b # <<>> /\ Head(b) = "/" THEN b
    ELSE IF a = <<>> \/ a[Len(a)] = "/" THEN a \o b
    ELSE a \o <<"/">> \o b

\* os.getcwd()
Cwd == <<"/", "c">>

\* the directory itself when f is one, else the directory part of f, else the
\* working directory
DirectoryName(dirs, f) ==
    IF f \in dirs THEN f
    ELSE IF DirName(f) # <<>> /\ DirName(f) # <<".">> THEN DirName(f)
    ELSE Cwd

\* the key of an extension in FileName.reserved
ReservedKey(ext) == Replace(ext, <<".">>, <<>>)

\* FileName.EmbedName
EmbedName(stem, ext) ==
    stem \o <<".">> \o (IF Head(ext) = "." THEN Tail(ext) ELSE ext)

\* FileName.__call__
CallName(dirs, stem, res, ext) ==
    IF ext = <<>> THEN stem
    ELSE IF ReservedKey(ext) \in DOMAIN res
         THEN PathJoin(DirectoryName(dirs, stem), res[ReservedKey(ext)])
    ELSE EmbedName(stem, ext)

\* FileName.__setitem__
SetItem(res, k, val) ==
    [x \in DOMAIN res \cup {ReservedKey(k)} |->
        IF x = ReservedKey(k) THEN val ELSE res[x]]

\* the paths a FileName is made from
Paths == {
    <<"f", ".", "w">>,
    <<"d", "/", "f", ".", "w">>,
    <<"d", ".", "x", "/", "f">>,
    <<"f">>,
    <<"d", "/", "f">> }

\* the directories there may be
Directories == {{}, {<<"f">>}}

\* the extensions asked for and reserved
Extensions == {
    <<>>,
    <<"m">>,
    <<".", "m">>,
    <<"m", "k">>,
    <<"m", ".", "k">> }

\* the names reserved for them
ReservedNames == {<<"x">>, <<"/", "y">>}

FileNameInit ==
    /\ NoMetadata
    /\ NoNames
    /\ NoChapters
    /\ NoTimes
    /\ NoRun
    /\ NoRewrite
    /\ base \in Paths
    /\ isdir \in Directories
    /\ basename = None
    /\ reserved = EmptyDict
    /\ history = <<>>
    /\ result = NoDoc
    /\ nerr = NoError

\* FileName(base)
NewFileName ==
    /\ basename = None
    /\ nerr = NoError
    /\ IF RFind(base, ".") < 0
       THEN /\ nerr' = "ValueError"
            /\ UNCHANGED <<basename, reserved>>
       ELSE /\ basename' = Slice(base, 0, RFind(base, "."))
            /\ reserved' = EmptyDict
            /\ UNCHANGED nerr
    /\ UNCHANGED <<base, isdir, history, result, nother>>

\* name[k] = val
Reserve(k, val) ==
    /\ basename # None
    /\ Len(history) < MaxReservations
    /\ reserved' = SetItem(reserved, k, val)
    /\ history' = Append(history, <<k, val>>)
    /\ UNCHANGED <<base, isdir, basename, result, nerr, nother>>

\* name(ext)
AskName(ext) ==
    /\ basename # None
    /\ result' = [built |-> TRUE, ext |-> ext,
                  name |-> CallName(isdir, basename, reserved, ext)]
    /\ UNCHANGED <<base, isdir, basename, reserved, history, nerr, nother>>

FileNameNext ==
    \/ NewFileName
    \/ \E k \in Extensions, val \in ReservedNames : Reserve(k, val)
    \/ \E ext \in Extensions : AskName(ext)

SpecFileName == FileNameInit /\ [][FileNameNext]_vars

\* the path up to its last '.'
Stem(path) == Slice(path, 0, RFind(path, "."))

\* an extension without its leading dot
Dotless(e) == IF e # <<>> /\ Head(e) = "." THEN Tail(e) ELSE e

\* the value of the last reservation of h made for the extension e, None
\* without one
RECURSIVE LastReserved(_, _)
LastReserved(h, e) ==
    IF h = <<>> THEN None
    ELSE IF Dotless(h[Len(h)][1]) = Dotless(e) THEN h[Len(h)][2]
    ELSE LastReserved(SubSeq(h, 1, Len(h) - 1), e)

\* the directory a stem lies in
StemDirectory(stem) ==
    IF DirName(stem) \in {<<>>, <<".">>} THEN Cwd ELSE DirName(stem)

\* what a call with the extension e is to give
Expected(e) ==
    IF e = <<>> THEN basename
    ELSE IF LastReserved(history, e) # None
         THEN PathJoin(StemDirectory(basename), LastReserved(history, e))
    ELSE basename \o <<".">> \o Dotless(e)

\* the FileName was made or refused
FileNameMade == basename # None \/ nerr # NoError

\* only a path without any '.' is refused, and a FileName that was made has
\* the stem of its path
StemOrValueError ==
    FileNameMade =>
        /\ (nerr = "ValueError") <=> ("." \notin Range(base))
        /\ (nerr = NoError) => basename = Stem(base)

\* C20: for a FileName built from a path containing a '.', after any sequence
\* of reservations name[e] = v, a call with no extension returns the stem (the
\* path up to its last '.'); a call with the extension e, with or without a
\* leading dot, returns the most recently reserved value for e joined with
\* the directory of the stem if e was reserved, and stem + '.' + e otherwise;
\* a reservation for one extension never changes the result for a different
\* extension; constructing from a path without any '.' fails with ValueError.
C20_FileName ==
    /\ [](StemOrValueError)
    /\ [](basename # None =>
            \A e \in Extensions :
                CallName(isdir, basename, reserved, e) = Expected(e))
    /\ [][\A k \in Extensions, e \in Extensions :
            (/\ Len(history') = Len(history) + 1
             /\ history'[Len(history')][1] = k
             /\ Dotless(k) # Dotless(e))
            => CallName(isdir, basename', reserved', e)
                 = CallName(isdir, basename, reserved, e)]_vars

\* the extensions without a '.' after their first character
Simple(e) == "." \notin Range(Dotless(e))

\* the same for a stem that is not a directory and for extensions that have
\* no '.' but a leading one: every call gives what C20 says
C20_FileNamePlain ==
    (/\ basename # None
     /\ basename \notin isdir
     /\ \A i \in 1..Len(history) : Simple(history[i][1]))
    => \A e \in Extensions :
           Simple(e) => CallName(isdir, basename, reserved, e) = Expected(e)

\* "d/f.w" with ".m" reserved twice, asked for as "m": the later name, in "d"
C20_Witness ==
    /\ base = <<"d", "/", "f", ".", "w">>
    /\ history = << <<<<".", "m">>, <<"/", "y">>>>, <<<<".", "m">>, <<"x">>>> >>
    /\ result = [built |-> TRUE, ext |-> <<"m">>, name |-> <<"d", "/", "x">>]

\* "f.w" beside a directory "f": the reserved name is put into "f"
C20_WitnessDirectory ==
    /\ base = <<"f", ".", "w">>
    /\ isdir = {<<"f">>}
    /\ history = << <<<<"m">>, <<"x">>>> >>
    /\ result = [built |-> TRUE, ext |-> <<"m">>, name |-> <<"f", "/", "x">>]

\* "m.k" reserved, "mk" asked for: the name reserved for "m.k"
C20_WitnessOtherExtension ==
    /\ base = <<"d", "/", "f", ".", "w">>
    /\ history = << <<<<"m", ".", "k">>, <<"x">>>> >>
    /\ result = [built |-> TRUE, ext |-> <<"m", "k">>, name |-> <<"d", "/", "x">>]

\* a path without '.' was refused
C20_WitnessValueError ==
    /\ base = <<"d", "/", "f">>
    /\ basename = None
    /\ nerr = "ValueError"

-----------------------------------------------------------------------------
\* The external tools: tools/flac/merger.py, tools/mka/createmka.py

\* how many tools one caller starts
MaxToolRuns == 3

\* the exit statuses of a exe
ExitCodes == 0..2

\* the merged FLAC, the intermediate WAV and the Matroska file of an album
F_FLAC == "out.flac"

F_WAV == "out.wav"

F_MKA == "out [FLAC].mka"

\* the CUE sheet and the audio the run reads
F_SOURCE_CUE == "in.cue"

F_SOURCE_FLAC == "01.flac"

SOX_EXE == "sox"

FLAC_EXE == "flac"

MKVMERGE_EXE == "mkvmerge"

METAFLAC_EXE == "metaflac"

Tools == {SOX_EXE, FLAC_EXE, MKVMERGE_EXE, METAFLAC_EXE}

\* no exception
NoRaise == [type |-> NoError, cmd |-> <<>>, returncode |-> 0]

\* an exception that is not the failure of a exe
Raise(type) == [type |-> type, cmd |-> <<>>, returncode |-> 0]

\* subprocess.CalledProcessError of the command that wrote out
CalledProcessError(exe, out, code) ==
    [type |-> "CalledProcessError", cmd |-> <<exe, out>>, returncode |-> code]

\* FLACMerger._delfile
Delfile(d, f) == d \ {f}

\* the files after a exe ran that writes out: with status 0 out exists,
\* with another status what the exe wrote of it is left or not
ToolRan(d, out, code, left) ==
    IF code = 0 \/ left THEN d \cup {out} ELSE d

\* the wrapper of checked(ext) that forgets the file after a failure
Checked_KeepPartial(d, out, code, left) ==
    ToolRan(Delfile(d, out), out, code, left)

\* the wrapper of checked(ext): the file is deleted before the exe runs and
\* again after CalledProcessError
Checked(d, out, code, left) ==
    IF code = 0 THEN ToolRan(Delfile(d, out), out, code, left)
    ELSE Delfile(ToolRan(Delfile(d, out), out, code, left), out)

\* the runs of the tools with one more of the tool exe
Ran(runs, exe, code) == [runs EXCEPT ![exe] = Append(@, code)]

\* all runs so far
TotalRuns == Len(toolruns[SOX_EXE]) + Len(toolruns[FLAC_EXE])
                + Len(toolruns[MKVMERGE_EXE])

NoToolRuns == [t \in Tools |-> <<>>]

ToolsInit ==
    /\ NoMetadata
    /\ NoNames
    /\ NoChapters
    /\ NoTimes
    /\ NoFileName
    /\ NoRewrite
    /\ opts = NoDoc
    /\ fsys \in SUBSET {F_FLAC, F_WAV, F_MKA}
    /\ fsys0 = fsys
    /\ created = {}
    /\ exitfuncs = <<>>
    /\ target = EmptyDict
    /\ step = "tools"
    /\ raised = NoRaise
    /\ toolruns = NoToolRuns

\* a method of FLACMerger under checked(ext), run by the tool exe with the status code
CheckedCall(exe, out, code, left) ==
    /\ step = "tools"
    /\ TotalRuns < MaxToolRuns
    /\ fsys' = Checked(fsys, out, code, left)
    /\ toolruns' = Ran(toolruns, exe, code)
    /\ IF code = 0
       THEN /\ created' = created \cup {out}
            /\ UNCHANGED <<step, raised>>
       ELSE /\ raised' = CalledProcessError(exe, out, code)
            /\ step' = "raised"
            /\ UNCHANGED created
    /\ UNCHANGED <<opts, fsys0, exitfuncs, target, pother>>

\* FLACMerger.MergeFLAC
MergeFLAC ==
    \E code \in ExitCodes, left \in BOOLEAN :
        CheckedCall(SOX_EXE, F_FLAC, code, left)

\* FLACMerger.MergeWAV
MergeWAV ==
    \E code \in ExitCodes, left \in BOOLEAN :
        CheckedCall(SOX_EXE, F_WAV, code, left)

\* FLACMerger.Encode: flac --best encodes the WAV, which has to be there
Encode ==
    \E code \in ExitCodes, left \in BOOLEAN :
        /\ code = 0 => F_WAV \in fsys
        /\ CheckedCall(FLAC_EXE, F_FLAC, code, left)

\* MKACreator.Create: subprocess.check_call of mkvmerge, which reads the FLAC
Create(code, left, next) ==
    /\ code = 0 => F_FLAC \in fsys \/ F_SOURCE_FLAC \in fsys
    /\ fsys' = ToolRan(fsys, F_MKA, code, left)
    /\ toolruns' = Ran(toolruns, MKVMERGE_EXE, code)
    /\ IF code = 0
       THEN /\ created' = created \cup {F_MKA}
            /\ step' = next
            /\ UNCHANGED raised
       ELSE /\ raised' = CalledProcessError(MKVMERGE_EXE, F_MKA, code)
            /\ step' = "raised"
            /\ UNCHANGED created
    /\ UNCHANGED <<opts, fsys0, exitfuncs, target, pother>>

CreateMKA ==
    /\ step = "tools"
    /\ TotalRuns < MaxToolRuns
    /\ \E code \in ExitCodes, left \in BOOLEAN : Create(code, left, "tools")

ToolsNext ==
    \/ MergeFLAC
    \/ MergeWAV
    \/ Encode
    \/ CreateMKA

SpecTools == ToolsInit /\ [][ToolsNext]_vars

\* the runs of a exe that ended with a status other than 0
Failures(t) == {i \in 1..Len(toolruns[t]) : toolruns[t][i] # 0}

\* a exe failed
ToolFailed == raised.type = "CalledProcessError"

\* the file the failed command was writing is gone, the error is that of the
\* run, and the failed run is the last run of all
FailureHandled ==
    /\ raised.cmd[2] \notin fsys
    /\ raised.cmd[1] \in Tools
    /\ Failures(raised.cmd[1]) = {Len(toolruns[raised.cmd[1]])}
    /\ raised.returncode = toolruns[raised.cmd[1]][Len(toolruns[raised.cmd[1]])]
    /\ \A t \in Tools \ {raised.cmd[1]} : Failures(t) = {}

\* C21: when an external merge or mux exe exits with a non-zero status, the
\* partial output file of that stage (the merged FLAC or WAV of the merger,
\* the MKA of the muxer) does not exist afterwards, the same error is
\* propagated to the caller, and the exe is not invoked again.
C21_ToolFailure == ToolFailed => FailureHandled

\* the same for the merger alone: MergeFLAC, MergeWAV and Encode
C21_MergerFailure ==
    (ToolFailed /\ raised.cmd[1] # MKVMERGE_EXE) => FailureHandled

\* sox failed having written part of the merged FLAC over an older one
C21_WitnessMerger ==
    /\ F_FLAC \in fsys0
    /\ raised = CalledProcessError(SOX_EXE, F_FLAC, 2)
    /\ F_FLAC \notin fsys

\* mkvmerge ended with status 1 and its file is there
C21_WitnessMuxer ==
    /\ F_MKA \notin fsys0
    /\ raised = CalledProcessError(MKVMERGE_EXE, F_MKA, 1)
    /\ F_MKA \in fsys

-----------------------------------------------------------------------------
\* The two pipelines and the files they leave: tools/cue.py,
\* tools/multiflac.py, with the atexit callbacks of the objects they make

\* the sidecar files next to the merged audio
F_CUE == "out.cue"

F_XML == "out.xml"

F_CHAPTERS == "out.chapters.xml"

F_JPG == "out.jpg"

F_PNG == "out.png"

\* self.outputname, self.createdfile of an object that names no file
NoFile == ""

\* the objects whose Clean is registered with atexit
Cleaners == {"Artwork", "CueFilenameChanger", "MatroskaTagger",
             "MatroskaChapters", "FLACMerger"}

\* the command lines and directories of the runs
RunOptions ==
    {[pipeline |-> "cue", out |-> "mka", no_confirm |-> nc, image |-> im,
      skipmerge |-> FALSE, multidisc |-> FALSE, iscd |-> TRUE, samecue |-> sc] :
        nc \in BOOLEAN, im \in BOOLEAN, sc \in BOOLEAN}
    \cup
    {[pipeline |-> "multiflac", out |-> o, no_confirm |-> nc, image |-> im,
      skipmerge |-> sm, multidisc |-> md, iscd |-> cd, samecue |-> FALSE] :
        o \in {"mka", "cue", "cueflac"}, nc \in BOOLEAN, im \in BOOLEAN,
        sm \in BOOLEAN, md \in BOOLEAN, cd \in BOOLEAN}

RunInit ==
    /\ NoMetadata
    /\ NoNames
    /\ NoChapters
    /\ NoTimes
    /\ NoFileName
    /\ NoRewrite
    /\ opts \in RunOptions
    /\ \E old \in SUBSET {F_FLAC, F_JPG} :
           fsys = {F_SOURCE_FLAC} \cup old
                     \cup (IF opts.pipeline = "cue" THEN {F_SOURCE_CUE} ELSE {})
    /\ fsys0 = fsys
    /\ created = {}
    /\ exitfuncs = <<>>
    /\ target = [o \in Cleaners |-> NoFile]
    /\ step = IF opts.pipeline = "cue" THEN "artwork" ELSE "main"
    /\ raised = NoRaise
    /\ toolruns = NoToolRuns

\* atexit.register(cls.Clean, self)
Register(funcs, obj) == Append(funcs, obj)

\* the Clean of an object at exit: the file it names is deleted if it is
\* there; with no file named (None) nothing is deleted
Clean(obj, tgt, d) == IF tgt[obj] = NoFile THEN d ELSE d \ {tgt[obj]}

\* the callbacks of atexit, the last registered first
RECURSIVE RunExitFuncs(_, _, _)
RunExitFuncs(funcs, tgt, d) ==
    IF funcs = <<>> THEN d
    ELSE RunExitFuncs(SubSeq(funcs, 1, Len(funcs) - 1), tgt,
                      Clean(funcs[Len(funcs)], tgt, d))

\* the statement that follows each one in MakeMatroska and in cue.main
AfterMain == IF opts.out = "mka" THEN "artwork" ELSE "confirm"

AfterConfirm ==
    IF opts.pipeline = "cue" THEN "cuecopy"
    ELSE IF opts.out # "mka" THEN "cuesheet"
    ELSE IF ~opts.multidisc /\ opts.iscd THEN "cuesheet"
    ELSE "tags"

AfterChapters ==
    IF opts.pipeline = "multiflac" /\ ~opts.skipmerge THEN "merge" ELSE "mux"

\* an exception leaves the run
Raises(type) ==
    /\ raised' = Raise(type)
    /\ step' = "raised"

\* multiflac.main up to the choice of func: flac_exists deletes a merged FLAC
\* that is there unless merging is skipped, FLACVerifier compares the files
MainStart ==
    /\ step = "main"
    /\ IF F_FLAC \in fsys
       THEN /\ fsys' = IF opts.skipmerge THEN fsys ELSE fsys \ {F_FLAC}
            /\ \E uniform \in BOOLEAN :
                   IF uniform THEN step' = AfterMain /\ UNCHANGED raised
                   ELSE Raises("RuntimeError")
       ELSE /\ UNCHANGED fsys
            /\ IF opts.skipmerge THEN Raises("FileNotFoundError")
               ELSE \E uniform \in BOOLEAN :
                        IF uniform THEN step' = AfterMain /\ UNCHANGED raised
                        ELSE Raises("RuntimeError")
    /\ UNCHANGED <<opts, fsys0, created, exitfuncs, target, toolruns, pother>>

\* what Artwork._FindImage comes upon
ImageFinds == {"copy jpg", "copy png", "no picture", "embedded jpg",
               "embedded png", "embedded gif", "embedded small"}

\* Artwork.__init__ with an image of its own to make
FindImage(found) ==
    /\ exitfuncs' = Register(exitfuncs, "Artwork")
    /\ UNCHANGED toolruns
    /\ CASE found = "copy jpg" ->
              /\ target' = [target EXCEPT !["Artwork"] = F_JPG]
              /\ fsys' = fsys \cup {F_JPG}
              /\ created' = created \cup {F_JPG}
              /\ step' = "confirm"
              /\ UNCHANGED raised
         [] found = "copy png" ->
              /\ target' = [target EXCEPT !["Artwork"] = F_PNG]
              /\ fsys' = fsys \cup {F_PNG}
              /\ created' = created \cup {F_PNG}
              /\ step' = "confirm"
              /\ UNCHANGED raised
         [] found = "no picture" ->
              /\ target' = [target EXCEPT !["Artwork"] = F_JPG]
              /\ UNCHANGED <<fsys, created>>
              /\ Raises("FileNotFoundError")
         [] found = "embedded jpg" ->
              /\ target' = [target EXCEPT !["Artwork"] = F_JPG]
              /\ fsys' = fsys \cup {F_JPG}
              /\ created' = created \cup {F_JPG}
              /\ step' = "confirm"
              /\ UNCHANGED raised
         [] found = "embedded png" ->
              \* exported to the JPG name, then _SwitchToPNG, then
              \* Image.open of the PNG name, which is no file
              /\ target' = [target EXCEPT !["Artwork"] = F_PNG]
              /\ fsys' = fsys \cup {F_JPG}
              /\ created' = created \cup {F_JPG}
              /\ Raises("FileNotFoundError")
         [] found \in {"embedded gif", "embedded small"} ->
              /\ target' = [target EXCEPT !["Artwork"] = F_JPG]
              /\ fsys' = fsys \cup {F_JPG}
              /\ created' = created \cup {F_JPG}
              /\ Raises("InvalidArtworkFormatError")

\* arthandler.Artwork(args, mdata, filename(ext.JPG))
NewArtwork ==
    /\ step = "artwork"
    /\ IF opts.image
       THEN /\ \E usable \in BOOLEAN :
                  IF usable THEN step' = "confirm" /\ UNCHANGED raised
                  ELSE Raises("InvalidArtworkFormatError")
            /\ UNCHANGED <<fsys, created, exitfuncs, target, toolruns>>
       ELSE IF F_JPG \in fsys
       THEN /\ step' = "confirm"
            /\ UNCHANGED <<fsys, created, exitfuncs, target, toolruns, raised>>
       ELSE \E found \in ImageFinds : FindImage(found)
    /\ UNCHANGED <<opts, fsys0, pother>>

\* "if not args.no_confirm and not mdata.Confirm(): return"
Confirm ==
    /\ step = "confirm"
    /\ IF opts.no_confirm THEN step' = AfterConfirm
       ELSE \E answer \in {"y", "n"} :
                step' = IF answer = "n" THEN "declined" ELSE AfterConfirm
    /\ UNCHANGED <<opts, fsys, fsys0, created, exitfuncs, target, raised,
                   toolruns, pother>>

\* cuewriter.CueSheet(files, mdata): __init__ takes the metadata alone
NewCueSheet ==
    /\ step = "cuesheet"
    /\ Raises("TypeError")
    /\ UNCHANGED <<opts, fsys, fsys0, created, exitfuncs, target, toolruns,
                   pother>>

\* cuewriter.CueFilenameChanger(filename, basename(ext.CUE)): the sheet is
\* written, then Clean is registered
NewCueFilenameChanger ==
    /\ step = "cuecopy"
    /\ IF opts.samecue
       THEN /\ exitfuncs' = Register(exitfuncs, "CueFilenameChanger")
            /\ step' = "tags"
            /\ UNCHANGED <<fsys, created, target, raised>>
       ELSE /\ target' = [target EXCEPT !["CueFilenameChanger"] = F_CUE]
            /\ fsys' = fsys \cup {F_CUE}
            /\ created' = created \cup {F_CUE}
            /\ \E written \in BOOLEAN :
                   IF written
                   THEN /\ exitfuncs' = Register(exitfuncs, "CueFilenameChanger")
                        /\ step' = "tags"
                        /\ UNCHANGED raised
                   ELSE /\ Raises("OSError")
                        /\ UNCHANGED exitfuncs
    /\ UNCHANGED <<opts, fsys0, toolruns, pother>>

\* cls(mdata).Create(name) of MatroskaTagger and MatroskaChapters: Clean is
\* registered by __init__, Create names the file and writes it
WriteSidecar(obj, name, next) ==
    /\ exitfuncs' = Register(exitfuncs, obj)
    /\ target' = [target EXCEPT ![obj] = name]
    /\ fsys' = fsys \cup {name}
    /\ created' = created \cup {name}
    /\ \E written \in BOOLEAN :
           IF written THEN step' = next /\ UNCHANGED raised
           ELSE Raises("OSError")
    /\ UNCHANGED <<opts, fsys0, toolruns, pother>>

\* tagwriter.MatroskaTagger(mdata).Create(basename(ext.XML))
CreateTagFile ==
    /\ step = "tags"
    /\ WriteSidecar("MatroskaTagger", F_XML, "chapters")

\* chapterwriter.MatroskaChapters(mdata).Create(basename(ext.CHAPTERS))
CreateChapterFile ==
    /\ step = "chapters"
    /\ WriteSidecar("MatroskaChapters", F_CHAPTERS, AfterChapters)

\* merger.FLACMerger(files).Create(filename(ext.FLAC))
MergeFiles ==
    /\ step = "merge"
    /\ exitfuncs' = Register(exitfuncs, "FLACMerger")
    /\ target' = [target EXCEPT !["FLACMerger"] = F_FLAC]
    /\ \E code \in ExitCodes, left \in BOOLEAN :
           /\ fsys' = Checked(fsys, F_FLAC, code, left)
           /\ toolruns' = Ran(toolruns, SOX_EXE, code)
           /\ IF code = 0
              THEN /\ created' = created \cup {F_FLAC}
                   /\ step' = "mux"
                   /\ UNCHANGED raised
              ELSE /\ raised' = CalledProcessError(SOX_EXE, F_FLAC, code)
                   /\ step' = "raised"
                   /\ UNCHANGED created
    /\ UNCHANGED <<opts, fsys0, pother>>

\* createmka.MKACreator(args, mdata, filename, artwork).Create()
MakeMKA ==
    /\ step = "mux"
    /\ \E code \in ExitCodes, left \in BOOLEAN : Create(code, left, "returned")

\* the interpreter exits: the callbacks of atexit run
AtExit ==
    /\ step \in {"returned", "declined", "raised"}
    /\ fsys' = RunExitFuncs(exitfuncs, target, fsys)
    /\ step' = CASE step = "returned" -> "done"
                 [] step = "declined" -> "cancelled"
                 [] step = "raised" -> "failed"
    /\ UNCHANGED <<opts, fsys0, created, exitfuncs, target, raised, toolruns,
                   pother>>

RunNext ==
    \/ MainStart
    \/ NewArtwork
    \/ Confirm
    \/ NewCueSheet
    \/ NewCueFilenameChanger
    \/ CreateTagFile
    \/ CreateChapterFile
    \/ MergeFiles
    \/ MakeMKA
    \/ AtExit

SpecRun == RunInit /\ [][RunNext]_vars

\* the files a run makes for the muxer alone
Transient == {F_CUE, F_XML, F_CHAPTERS, F_JPG, F_PNG}

\* the outputs a run is asked for, whose cleanup it unregisters
Kept == IF opts.out \in {"cue", "cueflac"} THEN {F_CUE, F_FLAC} ELSE {}

\* a registered callback deletes f
Registered(f) == \E i \in 1..Len(exitfuncs) : target[exitfuncs[i]] = f

\* the run has ended and the callbacks of atexit have run
Exited == step \in {"done", "cancelled", "failed"}

\* a pipeline runs or ran
Running == step \notin {"none", "tools"}

\* C22: on every exit path of a pipeline run (success, declined
\* confirmation, failure at any stage, a failure while a sidecar is being
\* written included) every transient file the run created (the CUE copy or
\* built CUE, the tag XML, the chapter XML, the extracted or copied artwork)
\* has its deletion registered from the moment it is created and no longer
\* exists after exit, except the outputs whose cleanup was unregistered
\* (the built CUE and the merged FLAC of the CUE modes).
C22_Cleanup ==
    Running =>
        \A f \in (created \cap Transient) \ Kept :
            /\ (~Exited /\ f \in fsys) => Registered(f)
            /\ Exited => f \notin fsys

\* the same for the files whose object registers its Clean before it writes:
\* the tag XML, the chapter XML and the artwork under the name Artwork holds
C22_CleanupRegistered ==
    Running =>
        /\ \A f \in created \cap {F_XML, F_CHAPTERS, F_PNG} :
               /\ (~Exited /\ f \in fsys) => Registered(f)
               /\ Exited => f \notin fsys
        /\ \A f \in created \cap Transient :
               (Registered(f) /\ Exited) => f \notin fsys

\* writing the CUE copy failed: the copy is there after exit
C22_WitnessCueCopy ==
    /\ step = "failed"
    /\ raised = Raise("OSError")
    /\ F_CUE \in created
    /\ F_CUE \in fsys

\* the embedded picture was a PNG: the exported file is there after exit
C22_WitnessArtwork ==
    /\ step = "failed"
    /\ target["Artwork"] = F_PNG
    /\ F_JPG \in created
    /\ F_JPG \in fsys

\* writing the chapter XML failed: XML, chapters and artwork are gone
C22_WitnessSidecars ==
    /\ step = "failed"
    /\ raised = Raise("OSError")
    /\ {F_XML, F_CHAPTERS, F_JPG} \subseteq created
    /\ {F_XML, F_CHAPTERS, F_JPG} \cap fsys = {}

\* a run that made the MKA: the sidecars are gone
C22_WitnessDone ==
    /\ step = "done"
    /\ {F_CUE, F_XML, F_CHAPTERS, F_PNG, F_MKA} \subseteq created
    /\ fsys \cap Transient = {}
    /\ F_MKA \in fsys

-----------------------------------------------------------------------------
\* A CUE sheet rewritten for the merged file: tools/flac/cuewriter.py

\* how many lines a sheet has
MaxSheetLines == 2

\* ext.CUE
CUE == <<".", "c", "u", "e">>

\* ["DATE"] + valid_tags
KeptRemarks == <<<<"D", "A", "T", "E">>, <<"G", "E", "N", "R", "E">>, <<"V", "E", "R", "S", "I", "O", "N">>, <<"D", "I", "S", "C", "_", "N", "A", "M", "E">>, <<"L", "A", "B", "E", "L">>, <<"I", "S", "S", "U", "E", "_", "D", "A", "T", "E">>>>

\* flacutil.FileName: os.path.basename
BaseName(p) == Slice(p, RFind(p, "/") + 1, Len(p))

\* CueFilenameChanger._keep_line
KeepLine(line) ==
    IF ~StartsWith(LStrip(line), <<"R", "E", "M">>) THEN TRUE
    ELSE \E i \in 1..Len(KeptRemarks) :
             StartsWith(Slice(LStrip(line), 4, Len(line)), KeptRemarks[i])

\* the FILE line that names the merged audio beside createdfile
NewFileLine(createdfile) ==
    <<"F", "I", "L", "E", " ", "\"">> \o BaseName(Replace(createdfile, CUE, WAV)) \o <<"\"", " ", "W", "A", "V", "E">>

\* a line of _create with a '"' in it: line.split('"')[0:2], nothing for a
\* blank value, else the two parts without the blanks at their ends
QuotedLine(line) ==
    LET part == Split(line, {"\""})
    IN  IF Strip(part[2]) = <<>> THEN <<>>
        ELSE <<RStrip(part[1]) \o <<" ", "\"">> \o RStrip(part[2]) \o <<"\"">>>>

\* one turn of the loop of _create: the lines it appends
CreateLine(line, createdfile) ==
    IF StartsWith(line, <<"F", "I", "L", "E", " ">>) THEN <<NewFileLine(createdfile)>>
    ELSE IF "\"" \in Range(line) THEN QuotedLine(line)
    ELSE <<line>>

\* CueFilenameChanger._create: the kept lines, each through the loop, then
\* filter(None, self.lines)
RECURSIVE CreateLines(_, _)
CreateLines(lines, createdfile) ==
    IF lines = <<>> THEN <<>>
    ELSE (IF KeepLine(Head(lines))
          THEN SelectSeq(CreateLine(Head(lines), createdfile),
                         LAMBDA l : l # <<>>)
          ELSE <<>>) \o CreateLines(Tail(lines), createdfile)

\* the lines the sheets are made of
SheetLines == <<
    <<"R", "E", "M", " ", "G", "E", "N", "R", "E", " ", "\"", "x", "\"">>,    \* a remark that stays
    <<"R", "E", "M", " ", "C", "O", "M", "M", "E", "N", "T", " ", "\"", "c", "\"">>,    \* a remark that goes
    <<"R", "E", "M", " ", "D", "A", "T", "E", " ", "1", "9", "9", "9">>,    \* a remark without quotes
    <<"R", "E", "M", " ", "D", "A", "T", "E", "S", " ", "1">>,    \* a remark whose tag begins with DATE
    <<"P", "E", "R", "F", "O", "R", "M", "E", "R", " ", "\"", "\"">>,    \* an empty value
    <<"T", "I", "T", "L", "E", " ", "\"", "t", "\"">>,    \* a value
    <<"T", "I", "T", "L", "E", " ", "\"", "a", " ", "\"", "b", "\"", "\"">>,    \* a value with quotes in it
    <<"F", "I", "L", "E", " ", "\"", "a", ".", "w", "a", "v", "\"", " ", "W", "A", "V", "E">>,    \* the audio file
    <<" ", " ", "T", "R", "A", "C", "K", " ", "0", "1", " ", "A", "U", "D", "I", "O">>,    \* a track
    <<" ", " ", " ", " ", "I", "N", "D", "E", "X", " ", "0", "1", " ", "0", "0", ":", "0", "0", ":", "0", "0">>,    \* an index
    <<>> >>    \* an empty line

\* the lines without an empty one, a remark tag that only begins with a kept
\* one, or quotes inside a value
PlainLines == {SheetLines[i] : i \in {1, 2, 3, 5, 6, 8, 9, 10}}

RECURSIVE SheetsOf(_)
SheetsOf(n) ==
    IF n = 0 THEN {<<>>}
    ELSE SheetsOf(n - 1)
         \cup {Append(s, SheetLines[i]) : s \in SheetsOf(n - 1), i \in 1..Len(SheetLines)}

\* the names of the sheet to create
OutputCues == {<<"o", "u", "t", ".", "c", "u", "e">>, <<"d", "/", "m", "y", ".", "c", "u", "e">>}

RewriteInit ==
    /\ NoMetadata
    /\ NoNames
    /\ NoChapters
    /\ NoTimes
    /\ NoFileName
    /\ NoRun
    /\ cuesheet \in SheetsOf(MaxSheetLines)
    /\ outputcue \in OutputCues
    /\ outlines = NoDoc

\* CueFilenameChanger(cuesheet, outputcue) for two different names: _create
\* and _write
RewriteCue ==
    /\ ~outlines.built
    /\ outlines' = [built |-> TRUE,
                    lines |-> CreateLines(cuesheet, outputcue)]
    /\ UNCHANGED <<cuesheet, outputcue, wother>>

RewriteNext == RewriteCue

SpecRewrite == RewriteInit /\ [][RewriteNext]_vars

\* the tag of a remark line: the word after REM
RemarkTag(line) ==
    LET word == Split(LStrip(line), {" "})
    IN  IF Len(word) > 1 THEN word[2] ELSE <<>>

\* a remark line
IsRemark(line) == Split(LStrip(line), {" "})[1] = <<"R", "E", "M">>

\* a line with a quoted value that is empty
EmptyQuoted(line) ==
    /\ "\"" \in Range(line)
    /\ Split(line, {"\""})[2] = <<>>

\* what the rewriter is to make of one line
ExpectedLine(line, name) ==
    IF IsRemark(line) /\ RemarkTag(line) \notin Range(KeptRemarks) THEN <<>>
    ELSE IF StartsWith(line, <<"F", "I", "L", "E", " ">>)
         THEN <<<<"F", "I", "L", "E", " ", "\"">> \o Stem(BaseName(name)) \o WAV \o <<"\"", " ", "W", "A", "V", "E">>>>
    ELSE IF EmptyQuoted(line) THEN <<>>
    ELSE <<line>>

RECURSIVE ExpectedLines(_, _)
ExpectedLines(lines, name) ==
    IF lines = <<>> THEN <<>>
    ELSE ExpectedLine(Head(lines), name) \o ExpectedLines(Tail(lines), name)

\* C23: CueFilenameChanger writes the lines of the source CUE in their order
\* with exactly these changes: every remark line whose tag is not one of
\* DATE, GENRE, VERSION, DISC_NAME, LABEL, ISSUE_DATE is dropped; the FILE
\* line becomes FILE "<base name of the target with the .wav extension>"
\* WAVE; every quoted-value line whose quoted value is empty is dropped;
\* every other line is copied.
C23_Rewrite ==
    outlines.built => outlines.lines = ExpectedLines(cuesheet, outputcue)

\* the same for sheets of plain lines
C23_RewritePlain ==
    (outlines.built /\ Range(cuesheet) \subseteq PlainLines)
    => outlines.lines = ExpectedLines(cuesheet, outputcue)

\* a dropped remark and the FILE line
C23_Witness ==
    /\ cuesheet = <<SheetLines[2], SheetLines[8]>>
    /\ outputcue = <<"d", "/", "m", "y", ".", "c", "u", "e">>
    /\ outlines = [built |-> TRUE, lines |-> <<<<"F", "I", "L", "E", " ", "\"", "m", "y", ".", "w", "a", "v", "\"", " ", "W", "A", "V", "E">>>>]

\* a title with quotes in it is cut at the second quote
C23_WitnessCut ==
    /\ cuesheet = <<SheetLines[7]>>
    /\ outlines = [built |-> TRUE, lines |-> <<<<"T", "I", "T", "L", "E", " ", "\"", "a", "\"">>>>]

\* an empty line is not copied
C23_WitnessEmptyLine ==
    /\ cuesheet = <<SheetLines[11], SheetLines[6]>>
    /\ outlines = [built |-> TRUE, lines |-> <<SheetLines[6]>>]

-----------------------------------------------------------------------------
\* The disc blocks of the multi-disc tags: tools/mka/tagwriter.py

\* how many tracks a multi-disc album has
MaxDiscTracks == 2

\* str.strip(chars)
RECURSIVE StripChars(_, _)
StripChars(s, chars) ==
    IF s # <<>> /\ Head(s) \in chars THEN StripChars(Tail(s), chars)
    ELSE IF s # <<>> /\ s[Len(s)] \in chars
         THEN StripChars(SubSeq(s, 1, Len(s) - 1), chars)
    ELSE s

\* MultiDiscTagger.__init__: self.discinfo[disc], the index and the track
\* number of each track of the disc, in the order of the tracks
RECURSIVE DiscInfo(_, _, _)
DiscInfo(ts, disc, i) ==
    IF i > Len(ts) THEN <<>>
    ELSE (IF GetDisc(ts[i]) = disc
          THEN <<[index |-> i - 1, track |-> ts[i][K_track]]>>
          ELSE <<>>) \o DiscInfo(ts, disc, i + 1)

\* the keys of self.discinfo
DiscKeys(ts) == {GetDisc(ts[i]) : i \in 1..Len(ts)}

\* sorted(self.discinfo)
SortedDiscs(ts) ==
    Sorted(CHOOSE l \in Listings(DiscKeys(ts)) : TRUE)

\* the number of tracks of the disc in place of the largest track number
DiscTotal_Count(items) == Len(items)

\* CreateDiscTag: max(int(ch['track']) for ch in chapter_idxs)
RECURSIVE DiscTotal(_)
DiscTotal(items) ==
    IF Len(items) = 1 THEN IntOf(items[1].track)
    ELSE LET m == DiscTotal(Tail(items))
             h == IntOf(items[1].track)
         IN  IF h > m THEN h ELSE m

\* MultiDiscTagger.CreateDiscTag: the block of one disc
CreateDiscTag(pool, self, disc_number, items, names) ==
    [disc  |-> disc_number,
     uids  |-> [k \in 1..Len(items) |->
                  TaggerChapterUID(pool, self, items[k].index)],
     part  |-> StripChars(disc_number, {"A", "B"}),
     total |-> StrOf(DiscTotal(items)),
     name  |-> IF disc_number \in DOMAIN names
               THEN <<names[disc_number]>> ELSE <<>>]

\* MultiDiscTagger.CreateDiscTags
CreateDiscTags(pool, self, md) ==
    [k \in 1..Len(SortedDiscs(md.tracks)) |->
        LET disc == SortedDiscs(md.tracks)[k]
        IN  CreateDiscTag(pool, self, disc, DiscInfo(md.tracks, disc, 1),
                          md.disc_data)]

\* the track records of the albums: a disc, a track number, a side or none
DiscTrackRecords ==
    {Put([k \in {K_disc} |-> d], K_track, t) : d \in {<<"1">>, <<"2">>},
                                              t \in {<<"2">>, <<"1", "2">>}}
    \cup
    {Put(Put([k \in {K_disc} |-> d], K_track, t), K_side, s) :
        d \in {<<"1">>, <<"2">>}, t \in {<<"2">>, <<"1", "2">>},
        s \in {<<"A">>, <<"C">>}}

RECURSIVE TrackListsOf(_)
TrackListsOf(n) ==
    IF n = 0 THEN {<<>>}
    ELSE {Append(l, t) : l \in TrackListsOf(n - 1), t \in DiscTrackRecords}

\* the disc-name tables
DiscNameTables ==
    {EmptyDict,
     Put(Put(EmptyDict, <<"1", "A">>, <<"n">>), <<"2">>, <<"m">>)}

MultiDiscInit ==
    /\ NoMetadata
    /\ NoNames
    /\ NoTimes
    /\ NoFileName
    /\ NoRun
    /\ NoRewrite
    /\ ids = <<>>
    /\ objs = <<>>
    /\ \E n \in 1..MaxDiscTracks, dd \in DiscNameTables :
           mdata \in {[tracks |-> l, disc_data |-> dd] : l \in TrackListsOf(n)}
    /\ tagdoc = NoDoc
    /\ chapdoc = NoDoc

\* MultiDiscTagger(mdata): discinfo, then MatroskaTagger.__init__ with the
\* disc blocks of CreateDiscTags and a CreateTrackTag for each track
NewMultiDiscTagger ==
    /\ ~tagdoc.built
    /\ LET n == Len(mdata.tracks)
       IN  /\ ids' \in Pools(ids, n)
           /\ objs' = Append(objs, NewObject(ids', n))
           /\ tagdoc' = [built |-> TRUE, ids |-> NewObject(ids', n),
                         discs |-> CreateDiscTags(ids', NewObject(ids', n), mdata),
                         uids |-> [i \in 1..n |->
                                    TaggerChapterUID(ids', NewObject(ids', n), i - 1)]]
    /\ UNCHANGED <<mdata, chapdoc, cother>>

MultiDiscNext == NewMultiDiscTagger

SpecDiscs == MultiDiscInit /\ [][MultiDiscNext]_vars


\* the tracks of a disc/side identifier, by their position
TracksOfDisc(d) ==
    {i \in 1..Len(mdata.tracks) : GetDisc(mdata.tracks[i]) = d}

\* the largest track number among the tracks of a disc/side identifier
LargestTrack(d) ==
    CHOOSE m \in {IntOf(mdata.tracks[i][K_track]) : i \in TracksOfDisc(d)} :
        \A i \in TracksOfDisc(d) : IntOf(mdata.tracks[i][K_track]) <= m

\* one block for each identifier among the tracks, with the largest track
\* number as TOTAL_PARTS, the ChapterUID of exactly the tracks of the
\* identifier, and DISC_NAME if and only if the table names the identifier
DiscBlocks ==
    LET blocks == tagdoc.discs
    IN  /\ {blocks[k].disc : k \in 1..Len(blocks)} = DiscKeys(mdata.tracks)
        /\ Len(blocks) = Cardinality(DiscKeys(mdata.tracks))
        /\ \A k \in 1..Len(blocks) :
              LET b == blocks[k]
              IN  /\ b.total = StrOf(LargestTrack(b.disc))
                  /\ Len(b.uids) = Cardinality(TracksOfDisc(b.disc))
                  /\ {b.uids[j] : j \in 1..Len(b.uids)}
                        = {tagdoc.uids[i] : i \in TracksOfDisc(b.disc)}
                  /\ (b.name # <<>>) <=> (b.disc \in DOMAIN mdata.disc_data)
                  /\ b.name # <<>> => b.name = <<mdata.disc_data[b.disc]>>

\* the identifier of a block without the side letter of its tracks
SideRemoved(b) ==
    \A i \in TracksOfDisc(b.disc) : b.part = mdata.tracks[i][K_disc]

\* C24 as stated: one block for each disc/side identifier among the tracks,
\* TOTAL_PARTS the largest track number of the disc/side, PART_NUMBER the
\* identifier with the side letter removed, the ChapterUID of exactly the
\* tracks of the disc/side, DISC_NAME if and only if the table has an entry
C24_DiscBlocks ==
    tagdoc.built =>
        /\ DiscBlocks
        /\ \A k \in 1..Len(tagdoc.discs) : SideRemoved(tagdoc.discs[k])

\* C24 amended: as above, with PART_NUMBER the identifier with the letters A
\* and B removed from its two ends, so that any other side letter stays
C24_DiscBlocksAB ==
    tagdoc.built =>
        /\ DiscBlocks
        /\ \A k \in 1..Len(tagdoc.discs) :
              LET b == tagdoc.discs[k]
              IN  /\ b.part = StripChars(b.disc, {"A", "B"})
                  /\ (\A i \in TracksOfDisc(b.disc) :
                         K_side \in DOMAIN mdata.tracks[i]
                             => mdata.tracks[i][K_side] \in {<<"A">>, <<"B">>})
                        => SideRemoved(b)

\* two tracks of side 1A, numbered 2 and 12, named by the table
C24_Witness ==
    /\ tagdoc.built
    /\ Len(tagdoc.discs) = 1
    /\ tagdoc.discs[1].disc = <<"1", "A">>
    /\ tagdoc.discs[1].part = <<"1">>
    /\ tagdoc.discs[1].total = <<"1", "2">>
    /\ Len(tagdoc.discs[1].uids) = 2
    /\ tagdoc.discs[1].name = <<<<"n">>>>

\* two discs, the second without a name in the table
C24_WitnessTwoDiscs ==
    /\ tagdoc.built
    /\ Len(tagdoc.discs) = 2
    /\ tagdoc.discs[1].disc = <<"1", "A">>
    /\ tagdoc.discs[2].disc = <<"2", "C">>
    /\ tagdoc.discs[2].name = <<>>
    /\ tagdoc.discs[1].name # <<>>

-----------------------------------------------------------------------------
(* The keys of the track records.                                          *)

\* HH:MM:SS.fffffffff
IsMKACode(s) ==
    /\ Len(s) = 18
    /\ s[3] = ":" /\ s[6] = ":" /\ s[9] = "."
    /\ \A i \in (1..18) \ {3, 6, 9} : s[i] \in DigitSet

\* a track record with the three keys, a track of digits and a start time
\* in the format of Matroska
CompleteRecord(track) ==
    /\ {K_title, K_track, K_start_time} \subseteq DOMAIN track
    /\ track[K_track] # <<>>
    /\ AllDigits(track[K_track])
    /\ IsMKACode(track[K_start_time])

\* the files of a FLAC source that are not skipped all carry TITLE and
\* TRACKNUMBER
FilesSupply ==
    \A i \in 1..Len(source.list) :
        \/ IsOutput(source.list[i],
                    GetOutputFilename(data, channels, forced_filename, filename))
        \/ {"TITLE", "TRACKNUMBER"} \subseteq DOMAIN source.disk[source.list[i]].tags

\* C25: every track record of a constructed object has title, track and
\* start_time, the track a non-empty string of digits and the start time a
\* Matroska time code; with a file that lacks one of them there is no
\* constructed object
C25_TrackRecords ==
    Constructed =>
        /\ \A i \in 1..Len(tracks) : CompleteRecord(tracks[i])
        /\ variant # "Cue" => FilesSupply

\* the same for the classes that sum their parts, AlbumMetadata and
\* CueMetadata, whose _Finalize takes int() of every track
C25_TrackRecordsSummed ==
    (Constructed /\ SumPartsOf(variant)) =>
        /\ \A i \in 1..Len(tracks) : CompleteRecord(tracks[i])
        /\ variant # "Cue" => FilesSupply

\* an album of two complete records
C25_Witness ==
    /\ Constructed
    /\ variant = "Album"
    /\ Len(tracks) = 2
    /\ tracks[2][K_track] = <<"2">>

\* a file without TRACKNUMBER ends the construction
C25_WitnessFailed ==
    /\ Failed
    /\ err = "TagNotFoundError"
    /\ \E i \in 1..Len(source.list) :
          "TRACKNUMBER" \notin DOMAIN source.disk[source.list[i]].tags

-----------------------------------------------------------------------------
(* The merged output among the source files.                               *)

\* the title of the merged file, which no track has
S_M == <<"M">>

\* names a merged file of the album of BaseTags can have: the name the tags
\* give, the name with the album of --album U, the name of 5.1 audio
MergedNames ==
    LET stem == <<"A", " ", "-", " ", "2", "0", "0", "1", " ", "-", " ">>
    IN  { stem \o <<"T">> \o FLAC,
          stem \o <<"U">> \o FLAC,
          stem \o <<"T", " ", "(", "5", ".", "1", ")">> \o FLAC }

\* the files of the album and a merged file of an earlier run next to them,
\* as flacutil.GetFilenames lists them
MergedSource(al, mname, mtags) ==
    LET src == FlacSource(al)
    IN  [src EXCEPT
            !.list = Sorted(Append(@, mname)),
            !.disk = [f \in DOMAIN src.disk \cup {mname} |->
                        IF f = mname
                        THEN [tags |-> Update(al.tags, mtags),
                              channels |-> al.info.channels,
                              sample_rate |-> al.info.sample_rate,
                              bits_per_sample |-> al.info.bits_per_sample,
                              length |-> 420]
                        ELSE src.disk[f]]]

MergedInit ==
    \E v \in {"Album", "Multidisc"} :
    \E n \in 1..MaxTracks :
    \E mname \in MergedNames :
    \E mtags \in {EmptyDict, TrackDesc(S_M, <<"9">>).tags} :
    \E alb \in {None, <<"U">>} :
    \E ch \in {2, 6} :
        StartFrom(v,
                  MergedSource([BaseAlbum EXCEPT
                                   !.tags = IF v = "Multidisc"
                                            THEN Put(BaseTags, "DISCNUMBER", <<"1">>)
                                            ELSE BaseTags,
                                   !.info = [CdInfo EXCEPT !.channels = ch],
                                   !.trks = [i \in 1..n |->
                                               TrackDesc(<<"s">>, StrOf(i))]],
                               mname, mtags),
                  [BaseArgs EXCEPT !.album = alb, !.multidisc = (v = "Multidisc")])

MergedNext ==
    \/ AlbumInitialize
    \/ MultidiscInitialize
    \/ GetTagPullChannels
    \/ DoPullHDFormat
    \/ MergeWithArgs
    \/ DoValidate
    \/ Finalize
    \/ CallGetOutputFilename

SpecMerged == MergedInit /\ [][MergedNext]_vars

\* the source file that has the output name of the object, with .flac
IsMerged(f) == f = Replace(outname, WAV, FLAC)

\* a track record was built from the file
BuiltFrom(f) ==
    /\ "TITLE" \in DOMAIN source.disk[f].tags
    /\ \E k \in 1..Len(tracks) : tracks[k][K_title] = source.disk[f].tags["TITLE"]

\* C26: no track record of the constructed object is built from the source
\* file that has the output name GetOutputFilename returns for it
C26_OutputSkipped ==
    pc = "named" =>
        \A i \in 1..Len(source.list) :
            IsMerged(source.list[i]) => ~BuiltFrom(source.list[i])

\* the same where the name is the name the tags of the first file give:
\* no --album, stereo audio
C26_OutputSkippedPlain ==
    (pc = "named" /\ args.album = None /\ channels = Stereo) =>
        \A i \in 1..Len(source.list) :
            IsMerged(source.list[i]) => ~BuiltFrom(source.list[i])

\* the merged file is skipped and the tracks are those of the other files
C26_Witness ==
    /\ pc = "named"
    /\ \E i \in 1..Len(source.list) :
          /\ IsMerged(source.list[i])
          /\ "TITLE" \in DOMAIN source.disk[source.list[i]].tags
    /\ Len(tracks) = Len(source.list) - 1
    /\ Len(tracks) = 2

\* the merged file of --album U has become a track
C26_WitnessTrack ==
    /\ pc = "named"
    /\ args.album = <<"U">>
    /\ \E i \in 1..Len(source.list) :
          IsMerged(source.list[i]) /\ BuiltFrom(source.list[i])

-----------------------------------------------------------------------------
(* The file the album-level tags are read from.                            *)

\* two files whose tags and audio differ, in the order the caller lists them
OrderedSource(order, tags1, tags2, ch1, ch2) ==
    [list |-> [i \in 1..2 |-> FlacName(order[i])],
     cue |-> <<>>,
     disk |-> [f \in {FlacName(1), FlacName(2)} |->
                  IF f = FlacName(1)
                  THEN [tags |-> Update(tags1, TrackDesc(<<"s">>, <<"1">>).tags),
                        channels |-> ch1,
                        sample_rate |-> CdInfo.sample_rate,
                        bits_per_sample |-> CdInfo.bits_per_sample,
                        length |-> 210]
                  ELSE [tags |-> Update(tags2, TrackDesc(<<"t">>, <<"2">>).tags),
                        channels |-> ch2,
                        sample_rate |-> CdInfo.sample_rate,
                        bits_per_sample |-> CdInfo.bits_per_sample,
                        length |-> 180]]]

\* the disc tags of a file of a two-disc album, or none
DiscTagged(tags, d) ==
    IF d THEN Put(Put(tags, "DISCNUMBER", <<"1">>), "DISCTOTAL", <<"2">>) ELSE tags

OrderInit ==
    \E v \in {"Album", "Multidisc"} :
    \E order \in {<<1, 2>>, <<2, 1>>} :
    \E alb \in {S_T, <<"U">>} :
    \E d1 \in BOOLEAN, d2 \in BOOLEAN :
    \E ch1 \in {2, 6}, ch2 \in {2, 6} :
        /\ v = "Multidisc" => d1 /\ d2
        /\ StartFrom(v,
                     OrderedSource(order, DiscTagged(BaseTags, d1),
                                   DiscTagged(Put(BaseTags, "ALBUM", alb), d2),
                                   ch1, ch2),
                     [BaseArgs EXCEPT !.multidisc = (v = "Multidisc")])

SpecOrder == OrderInit /\ [][MergedNext]_vars

\* the alphabetically first of the source files
FirstFile == Sorted(source.list)[1]

\* the album-level tags, the disc tags and the channels are those of file f
AlbumLevelFrom(f) ==
    LET tag == source.disk[f].tags
    IN  /\ \A m \in AlbumMapping : m[2] \in DOMAIN tag => data[m[1]] = tag[m[2]]
        /\ ("PART_NUMBER" \in DOMAIN data) <=> ("DISCNUMBER" \in DOMAIN tag)
        /\ discs = (IF "DISCTOTAL" \in DOMAIN tag THEN IntOf(tag["DISCTOTAL"]) ELSE 1)
        /\ channels = PullChannels(Stereo, source.disk[f])

\* C27: for AlbumMetadata over any list of files, the album-level tags, the
\* disc tags and the channels are those of the alphabetically first file,
\* the file of the first track record
C27_FirstFile ==
    (Constructed /\ variant = "Album") =>
        /\ AlbumLevelFrom(FirstFile)
        /\ tracks[1][K_title] = source.disk[FirstFile].tags["TITLE"]

\* the same for a list that is given in sorted order
C27_FirstFileSorted ==
    (Constructed /\ variant = "Album" /\ source.list = Sorted(source.list)) =>
        /\ AlbumLevelFrom(FirstFile)
        /\ tracks[1][K_title] = source.disk[FirstFile].tags["TITLE"]

\* a sorted list of two files that differ in album, disc tags and channels
C27_Witness ==
    /\ Constructed
    /\ variant = "Album"
    /\ source.list = <<FlacName(1), FlacName(2)>>
    /\ data["TITLE"] = S_T
    /\ source.disk[FlacName(2)].tags["ALBUM"] = <<"U">>
    /\ "PART_NUMBER" \in DOMAIN data
    /\ "DISCNUMBER" \notin DOMAIN source.disk[FlacName(2)].tags
    /\ channels = Surround
    /\ source.disk[FlacName(2)].channels = 2

\* a list in reverse order: the album of the second file, the track of the
\* first
C27_WitnessReversed ==
    /\ Constructed
    /\ variant = "Album"
    /\ source.list = <<FlacName(2), FlacName(1)>>
    /\ data["TITLE"] = <<"U">>
    /\ tracks[1][K_title] = <<"s">>

-----------------------------------------------------------------------------
(* The start times of files whose length is no whole number of seconds.    *)
(* Here a length is a number of ticks of 1/32768 s: every sum of such      *)
(* lengths is a float without rounding, and str() of it is its exact       *)
(* decimal expansion.                                                      *)

TicksPerSecond == 2 ^ 15

\* the first n decimal digits of r / 32768, for 0 <= r < 32768
RECURSIVE TickDigits(_, _)
TickDigits(r, n) ==
    IF n = 0 THEN <<>>
    ELSE <<Digits[((10 * r) \div TicksPerSecond) + 1]>>
         \o TickDigits((10 * r) % TicksPerSecond, n - 1)

\* str(x) of the float x = r / 32768 below 1: the decimals as they are, and
\* the exponent notation d.ddde-05 for an x below 0.0001
FloatStr(r) ==
    LET sig  == RStripZero(TickDigits(r, 15))
        m    == LStripZero(sig)
        lead == Len(sig) - Len(m)
    IN  IF r = 0 THEN <<"0", ".", "0">>
        ELSE IF lead >= 4
        THEN <<Head(m)>> \o (IF Len(m) > 1 THEN <<".">> \o Tail(m) ELSE <<>>)
             \o <<"e", "-">> \o ZFill2(StrOf(lead + 1))
        ELSE <<"0", ".">> \o sig

\* str.ljust(9, '0')
RECURSIVE LJust9(_)
LJust9(s) == IF Len(s) < 9 THEN LJust9(s \o <<"0">>) ELSE s

\* Time.Fractional: str(self.time % 1)[2:11].ljust(9, '0')
FloatFractional(t) == LJust9(Slice(FloatStr(t % TicksPerSecond), 2, 11))

\* Time.MKACode of a time of t ticks
FloatMKACode(t) ==
    ZFill2(StrOf((t \div TicksPerSecond) \div 3600)) \o <<":">>
        \o ZFill2(StrOf(((t \div TicksPerSecond) % 3600) \div 60)) \o <<":">>
        \o ZFill2(StrOf((t \div TicksPerSecond) % 60)) \o <<".">>
        \o FloatFractional(t)

\* the loop over the files: the track records, mka_time advancing by the
\* length of each file
RECURSIVE FloatTrackRecords(_, _, _, _)
FloatTrackRecords(fs, disk, t, optional) ==
    IF fs = <<>> THEN <<>>
    ELSE <<[TrackRecord(disk[Head(fs)].tags, 0, optional)
               EXCEPT ![K_start_time] = FloatMKACode(t)]>>
         \o FloatTrackRecords(Tail(fs), disk, t + disk[Head(fs)].length, optional)

\* AlbumMetadata._initialize over such files
AlbumInitializeFloat ==
    /\ pc = "new"
    /\ variant = "Album"
    /\ LET tag == GetTagFlac(source).tags
           d1 == AlbumDiscData(Update(data, GetAlbumLevelMetadata(source.list, source.disk)),
                               tag)
           fs == TrackFiles(source.list,
                            GetOutputFilename(d1, channels, forced_filename, filename))
       IN  /\ data' = d1
           /\ discs' = AlbumDiscCount(discs, tag)
           /\ tracks' = FloatTrackRecords(fs, source.disk, 0, AlbumTrackTags)
           /\ pc' = "initialized"
           /\ UNCHANGED <<variant, source, args, channels, filename,
                          forced_filename, disc_data, merged, err, outname>>
    /\ UNCHANGED <<svars, xvars>>

\* MultidiscMetadata._initialize over such files
MultidiscInitializeFloat ==
    /\ pc = "new"
    /\ variant = "Multidisc"
    /\ LET d1 == Update(data, Del(GetAlbumLevelMetadata(source.list, source.disk),
                                  "DISC_NAME"))
           fs == TrackFiles(source.list,
                            GetOutputFilename(d1, channels, forced_filename, filename))
           ts == FloatTrackRecords(fs, source.disk, 0, MultidiscTrackTags)
       IN  /\ data' = d1
           /\ tracks' = ts
           /\ disc_data' = DiscNames(fs, source.disk, ts, disc_data)
           /\ pc' = "initialized"
           /\ UNCHANGED <<variant, source, args, channels, discs, filename,
                          forced_filename, merged, err, outname>>
    /\ UNCHANGED <<svars, xvars>>

\* the lengths of the files, in ticks: three and a half minutes, three ticks
\* more than that, half a second, one tick
FileLengths ==
    {210 * TicksPerSecond, 210 * TicksPerSecond + 3, TicksPerSecond \div 2, 1}

\* the lists of files a caller gives, sorted or not
FileLists ==
    { <<FlacName(1), FlacName(2), FlacName(3)>>,
      <<FlacName(3), FlacName(1), FlacName(2)>>,
      <<FlacName(2), FlacName(1)>> }

\* the files of a list, each with its own title and length, and the merged
\* file of an earlier run with them or not
FloatSource(list, len, with) ==
    LET mname == CHOOSE n \in MergedNames : Contains(n, <<"T", ".">>)
        all   == IF with THEN Append(list, mname) ELSE list
    IN  [list |-> all,
         cue |-> <<>>,
         disk |-> [f \in Range(all) |->
                     LET i == IF f = mname THEN 9
                              ELSE CHOOSE j \in 1..3 : FlacName(j) = f
                     IN  [tags |-> Update(Put(BaseTags, "DISCNUMBER", <<"1">>),
                                          TrackDesc(StrOf(i), StrOf(i)).tags),
                          channels |-> CdInfo.channels,
                          sample_rate |-> CdInfo.sample_rate,
                          bits_per_sample |-> CdInfo.bits_per_sample,
                          length |-> IF f = mname THEN 0 ELSE len[i]]]]

FloatInit ==
    \E v \in {"Album", "Multidisc"} :
    \E list \in FileLists :
    \E len \in [1..3 -> FileLengths] :
    \E with \in BOOLEAN :
        StartFrom(v, FloatSource(list, len, with),
                  [BaseArgs EXCEPT !.multidisc = (v = "Multidisc")])

FloatNext == AlbumInitializeFloat \/ MultidiscInitializeFloat

SpecFloat == FloatInit /\ [][FloatNext]_vars


\* the source files of which AlbumMetadata makes a track: all but the
\* merged file
TrackSources == {f \in Range(source.list) : f \notin MergedNames}

\* the file a track record was built from, by its title
FileOf(track) ==
    CHOOSE f \in TrackSources : source.disk[f].tags["TITLE"] = track[K_title]

\* the lengths of the files of the records before record i, summed
RECURSIVE LengthBefore(_)
LengthBefore(i) ==
    IF i = 1 THEN 0
    ELSE LengthBefore(i - 1) + source.disk[FileOf(tracks[i - 1])].length

\* the Matroska time code of t ticks: hours, minutes, seconds and the first
\* nine decimals of the fraction of a second
TimeCode(t) ==
    ZFill2(StrOf((t \div TicksPerSecond) \div 3600)) \o <<":">>
        \o ZFill2(StrOf(((t \div TicksPerSecond) % 3600) \div 60)) \o <<":">>
        \o ZFill2(StrOf((t \div TicksPerSecond) % 60)) \o <<".">>
        \o TickDigits(t % TicksPerSecond, 9)

\* one record for each file that is not skipped, in ascending order of the
\* file names
InFileOrder ==
    /\ Len(tracks) = Cardinality(TrackSources)
    /\ \A i \in 1..Len(tracks) :
          \E f \in TrackSources : source.disk[f].tags["TITLE"] = tracks[i][K_title]
    /\ \A i \in 1..(Len(tracks) - 1) :
          StrLess(FileOf(tracks[i]), FileOf(tracks[i + 1]))

\* C28: the track records are in ascending order of the file names, one for
\* each file that is not skipped; the first starts at 00:00:00.000000000,
\* record i at the time code of the summed lengths of the files before it,
\* and no record starts before the record before it
C28_StartTimes ==
    pc = "initialized" =>
        /\ InFileOrder
        /\ tracks[1][K_start_time] = TimeCode(0)
        /\ \A i \in 1..Len(tracks) :
              tracks[i][K_start_time] = TimeCode(LengthBefore(i))
        /\ \A i \in 1..(Len(tracks) - 1) :
              ~StrLess(tracks[i + 1][K_start_time], tracks[i][K_start_time])

\* the sums whose fraction of a second str() writes without an exponent
PlainSums ==
    \A i \in 1..Len(tracks) :
        LET r == LengthBefore(i) % TicksPerSecond
        IN  r = 0 \/ 10000 * r >= TicksPerSecond

\* the same where no sum has a fraction of a second below 0.0001
C28_StartTimesPlain ==
    (pc = "initialized" /\ InFileOrder /\ PlainSums) =>
        /\ tracks[1][K_start_time] = TimeCode(0)
        /\ \A i \in 1..Len(tracks) :
              tracks[i][K_start_time] = TimeCode(LengthBefore(i))
        /\ \A i \in 1..(Len(tracks) - 1) :
              ~StrLess(tracks[i + 1][K_start_time], tracks[i][K_start_time])

\* the order of the records is that of the file names for every list
C28_FileOrder == pc = "initialized" => InFileOrder

\* an unsorted list of three files, the merged file skipped, the records
\* three and a half minutes and half a second apart
C28_Witness ==
    /\ pc = "initialized"
    /\ source.list[1] = FlacName(3)
    /\ Len(source.list) = 4
    /\ Len(tracks) = 3
    /\ tracks[1][K_title] = <<"1">>
    /\ tracks[2][K_start_time] = TimeCode(210 * TicksPerSecond)
    /\ tracks[3][K_start_time] = TimeCode(210 * TicksPerSecond + TicksPerSecond \div 2)

\* a file three ticks longer than three and a half minutes: the next record
\* at 00:03:30.155273437, and the record after it before that
C28_WitnessExponent ==
    /\ pc = "initialized"
    /\ Len(tracks) = 3
    /\ LengthBefore(2) = 210 * TicksPerSecond + 3
    /\ tracks[2][K_start_time] # TimeCode(LengthBefore(2))
    /\ StrLess(tracks[3][K_start_time], tracks[2][K_start_time])

-----------------------------------------------------------------------------
(* The identifier of the whole work and the identifiers of the chapters.   *)

\* the identifier of the whole work of an object, its index -1
WholeWork(self) == GetID(ids, self, -1)

\* the identifiers of the chapters of an object, its indices 0..n-1
ChapterIDs(self) == {GetID(ids, self, k) : k \in 0..(self.n - 2)}

\* C29: for two RandomChapterID objects of different sizes the identifier of
\* the whole work of the one is no identifier of a chapter of the other
C29_WholeWorkApart ==
    \A a \in 1..Len(objs) : \A b \in 1..Len(objs) :
        objs[a].n # objs[b].n => WholeWork(objs[a]) \notin ChapterIDs(objs[b])

\* the same for objects of one size, those of the two documents of a run
C29_WholeWorkApartSameSize ==
    \A a \in 1..Len(objs) : \A b \in 1..Len(objs) :
        objs[a].n = objs[b].n => WholeWork(objs[a]) \notin ChapterIDs(objs[b])

\* two objects of two chapters
C29_Witness ==
    /\ Len(objs) = 2
    /\ objs[1].n = 3
    /\ objs[2].n = 3
    /\ WholeWork(objs[1]) = ids[3]
    /\ ChapterIDs(objs[2]) = {ids[1], ids[2]}

\* an object of one chapter and one of two: the whole work of the first is
\* the second chapter of the other
C29_WitnessShared ==
    /\ Len(objs) = 2
    /\ objs[1].n = 2
    /\ objs[2].n = 3
    /\ WholeWork(objs[1]) = GetID(ids, objs[2], 1)

-----------------------------------------------------------------------------
(* The files of the directory and the answer to the confirmation.          *)

\* a run of multiflac.main whose confirmation was answered with n, after
\* its exit
Declined == step = "cancelled" /\ opts.pipeline = "multiflac"

\* C30: after a run of multiflac.main whose confirmation was answered with
\* n, every file that was in the directory before the run is still there
C30_NothingDeleted == Declined => fsys0 \subseteq fsys

\* the same for the runs that find no merged FLAC or are told to skip the
\* merge
C30_NothingDeletedUnmerged ==
    (Declined /\ (opts.skipmerge \/ F_FLAC \notin fsys0)) => fsys0 \subseteq fsys

\* a declined run with a picture of an earlier run, which is kept
C30_Witness ==
    /\ Declined
    /\ F_JPG \in fsys0
    /\ F_FLAC \notin fsys0
    /\ fsys = fsys0

\* a declined run that found a merged FLAC and deleted it
C30_WitnessDeleted ==
    /\ Declined
    /\ ~opts.skipmerge
    /\ F_FLAC \in fsys0
    /\ F_FLAC \notin fsys

=============================================================================
